---- MODULE Spec2Model ----
(***************************************************************************)
(* A model of pydirectinput's keyboard layer: the fail-safe / pause        *)
(* decorator, the scancode, key-name and unicode input functions, and the  *)
(* hold context managers.  A call is unfolded into the list of primitive   *)
(* steps its code executes (fail-safe check, SendInput call, sleep, local  *)
(* bookkeeping, return); the environment chooses the cursor position and   *)
(* the number of events SendInput accepts.                                 *)
(***************************************************************************)
EXTENDS Integers, Sequences, FiniteSets, TLC

(* ----- bounds ----------------------------------------------------------- *)
\* longest key / scancode / character list handed to one call
MaxKeys == 2
\* largest `presses` argument
MaxPresses == 2
\* most SendInput calls per library call that accept fewer events than given
MaxRejects == 1
\* most SendInput calls one library call may make
MaxSends == 8
\* the longest duration of a movement, in MINIMUM_SLEEP_ACTUAL intervals
MaxDuration == 2
\* the rounds in a row in which a movement's loop reads the same time left
MaxStall == 0
\* the largest number of clicks asked for
MaxClicks == 2
\* the threads that use _without_mouse_acceleration at the same time
MaxThreads == 2

(* ----- module constants ------------------------------------------------- *)
\* FAILSAFE_POINTS: list[tuple[int, int]] = [(0, 0)]
FAILSAFE_POINTS == { <<0, 0>> }
\* _KEYEVENTF_EXTENDEDKEY = 0x0001
KEYEVENTF_EXTENDEDKEY == 1
\* _KEYEVENTF_KEYUP = 0x0002
KEYEVENTF_KEYUP == 2
\* _KEYEVENTF_UNICODE = 0x0004
KEYEVENTF_UNICODE == 4
\* _KEYEVENTF_SCANCODE = 0x0008
KEYEVENTF_SCANCODE == 8
\* _OFFSET_EXTENDEDKEY = 0xE000
OFFSET_EXTENDEDKEY == 57344
\* _OFFSET_SHIFTKEY = 0x10000
OFFSET_SHIFTKEY == 65536
\* _SHIFT_SCANCODE = 0x2A
SHIFT_SCANCODE == 42
\* the literal 0xFFFF of scancode_keyDown / scancode_keyUp
MASK_WORD == 65535

(* ----- integer bit operations (Python's & and | on non-negative ints) --- *)
RECURSIVE BitAnd(_, _)
BitAnd(a, b) ==
    IF a = 0 \/ b = 0 THEN 0
    ELSE ((a % 2) * (b % 2)) + 2 * BitAnd(a \div 2, b \div 2)

RECURSIVE BitOr(_, _)
BitOr(a, b) ==
    IF a = 0 THEN b
    ELSE IF b = 0 THEN a
    ELSE (IF (a % 2) + (b % 2) > 0 THEN 1 ELSE 0) + 2 * BitOr(a \div 2, b \div 2)

(* ----- US_QWERTY_MAPPING / KEYBOARD_MAPPING ----------------------------- *)
(* A key name is the tuple of its characters, a table value the tuple of   *)
(* its scancodes (a bare int is the one-element tuple).  The characters    *)
(* \b \t \n \r, backslash, double quote, apostrophe and backtick are     *)
(* written BS TAB LF CR BACKSLASH QUOTE APOSTROPHE GRAVE.  The four arrow  *)
(* keys are left out: their values come from MapVirtualKeyW at import.     *)
US_QWERTY_MAPPING ==
    {
      <<<<"e", "s", "c", "a", "p", "e">>, <<1>>>>,
      <<<<"e", "s", "c">>, <<1>>>>,
      <<<<"f", "1">>, <<59>>>>,
      <<<<"f", "2">>, <<60>>>>,
      <<<<"f", "3">>, <<61>>>>,
      <<<<"f", "4">>, <<62>>>>,
      <<<<"f", "5">>, <<63>>>>,
      <<<<"f", "6">>, <<64>>>>,
      <<<<"f", "7">>, <<65>>>>,
      <<<<"f", "8">>, <<66>>>>,
      <<<<"f", "9">>, <<67>>>>,
      <<<<"f", "1", "0">>, <<68>>>>,
      <<<<"f", "1", "1">>, <<87>>>>,
      <<<<"f", "1", "2">>, <<88>>>>,
      <<<<"p", "r", "i", "n", "t", "s", "c", "r", "e", "e", "n">>, <<84>>>>,
      <<<<"p", "r", "n", "t", "s", "c", "r", "n">>, <<84>>>>,
      <<<<"p", "r", "t", "s", "c">>, <<84>>>>,
      <<<<"p", "r", "t", "s", "c", "r">>, <<84>>>>,
      <<<<"s", "c", "r", "o", "l", "l", "l", "o", "c", "k">>, <<70>>>>,
      <<<<"c", "t", "r", "l", "b", "r", "e", "a", "k">>, <<57414>>>>,
      <<<<"p", "a", "u", "s", "e">>, <<57629, 69, 57757, 197>>>>,
      <<<<"GRAVE">>, <<41>>>>,
      <<<<"1">>, <<2>>>>,
      <<<<"2">>, <<3>>>>,
      <<<<"3">>, <<4>>>>,
      <<<<"4">>, <<5>>>>,
      <<<<"5">>, <<6>>>>,
      <<<<"6">>, <<7>>>>,
      <<<<"7">>, <<8>>>>,
      <<<<"8">>, <<9>>>>,
      <<<<"9">>, <<10>>>>,
      <<<<"0">>, <<11>>>>,
      <<<<"-">>, <<12>>>>,
      <<<<"=">>, <<13>>>>,
      <<<<"~">>, <<65577>>>>,
      <<<<"!">>, <<65538>>>>,
      <<<<"@">>, <<65539>>>>,
      <<<<"#">>, <<65540>>>>,
      <<<<"$">>, <<65541>>>>,
      <<<<"%">>, <<65542>>>>,
      <<<<"^">>, <<65543>>>>,
      <<<<"&">>, <<65544>>>>,
      <<<<"*">>, <<65545>>>>,
      <<<<"(">>, <<65546>>>>,
      <<<<")">>, <<65547>>>>,
      <<<<"_">>, <<65548>>>>,
      <<<<"+">>, <<65549>>>>,
      <<<<"b", "a", "c", "k", "s", "p", "a", "c", "e">>, <<14>>>>,
      <<<<"BS">>, <<14>>>>,
      <<<<"i", "n", "s", "e", "r", "t">>, <<57426>>>>,
      <<<<"h", "o", "m", "e">>, <<57415>>>>,
      <<<<"p", "a", "g", "e", "u", "p">>, <<57417>>>>,
      <<<<"p", "g", "u", "p">>, <<57417>>>>,
      <<<<"p", "a", "g", "e", "d", "o", "w", "n">>, <<57425>>>>,
      <<<<"p", "g", "d", "n">>, <<57425>>>>,
      <<<<"n", "u", "m", "l", "o", "c", "k">>, <<69>>>>,
      <<<<"d", "i", "v", "i", "d", "e">>, <<57397>>>>,
      <<<<"m", "u", "l", "t", "i", "p", "l", "y">>, <<55>>>>,
      <<<<"s", "u", "b", "t", "r", "a", "c", "t">>, <<74>>>>,
      <<<<"a", "d", "d">>, <<78>>>>,
      <<<<"d", "e", "c", "i", "m", "a", "l">>, <<83>>>>,
      <<<<"n", "u", "m", "p", "e", "r", "i", "o", "d">>, <<83>>>>,
      <<<<"n", "u", "m", "p", "a", "d", "e", "n", "t", "e", "r">>, <<57372>>>>,
      <<<<"n", "u", "m", "p", "a", "d", "1">>, <<79>>>>,
      <<<<"n", "u", "m", "p", "a", "d", "2">>, <<80>>>>,
      <<<<"n", "u", "m", "p", "a", "d", "3">>, <<81>>>>,
      <<<<"n", "u", "m", "p", "a", "d", "4">>, <<75>>>>,
      <<<<"n", "u", "m", "p", "a", "d", "5">>, <<76>>>>,
      <<<<"n", "u", "m", "p", "a", "d", "6">>, <<77>>>>,
      <<<<"n", "u", "m", "p", "a", "d", "7">>, <<71>>>>,
      <<<<"n", "u", "m", "p", "a", "d", "8">>, <<72>>>>,
      <<<<"n", "u", "m", "p", "a", "d", "9">>, <<73>>>>,
      <<<<"n", "u", "m", "0">>, <<82>>>>,
      <<<<"n", "u", "m", "1">>, <<79>>>>,
      <<<<"n", "u", "m", "2">>, <<80>>>>,
      <<<<"n", "u", "m", "3">>, <<81>>>>,
      <<<<"n", "u", "m", "4">>, <<75>>>>,
      <<<<"n", "u", "m", "5">>, <<76>>>>,
      <<<<"n", "u", "m", "6">>, <<77>>>>,
      <<<<"n", "u", "m", "7">>, <<71>>>>,
      <<<<"n", "u", "m", "8">>, <<72>>>>,
      <<<<"n", "u", "m", "9">>, <<73>>>>,
      <<<<"n", "u", "m", "0">>, <<82>>>>,
      <<<<"c", "l", "e", "a", "r">>, <<76>>>>,
      <<<<"t", "a", "b">>, <<15>>>>,
      <<<<"TAB">>, <<15>>>>,
      <<<<"q">>, <<16>>>>,
      <<<<"w">>, <<17>>>>,
      <<<<"e">>, <<18>>>>,
      <<<<"r">>, <<19>>>>,
      <<<<"t">>, <<20>>>>,
      <<<<"y">>, <<21>>>>,
      <<<<"u">>, <<22>>>>,
      <<<<"i">>, <<23>>>>,
      <<<<"o">>, <<24>>>>,
      <<<<"p">>, <<25>>>>,
      <<<<"[">>, <<26>>>>,
      <<<<"]">>, <<27>>>>,
      <<<<"BACKSLASH">>, <<43>>>>,
      <<<<"Q">>, <<65552>>>>,
      <<<<"W">>, <<65553>>>>,
      <<<<"E">>, <<65554>>>>,
      <<<<"R">>, <<65555>>>>,
      <<<<"T">>, <<65556>>>>,
      <<<<"Y">>, <<65557>>>>,
      <<<<"U">>, <<65558>>>>,
      <<<<"I">>, <<65559>>>>,
      <<<<"O">>, <<65560>>>>,
      <<<<"P">>, <<65561>>>>,
      <<<<"{">>, <<65562>>>>,
      <<<<"}">>, <<65563>>>>,
      <<<<"|">>, <<65579>>>>,
      <<<<"d", "e", "l">>, <<57427>>>>,
      <<<<"d", "e", "l", "e", "t", "e">>, <<57427>>>>,
      <<<<"e", "n", "d">>, <<57423>>>>,
      <<<<"c", "a", "p", "s", "l", "o", "c", "k">>, <<58>>>>,
      <<<<"a">>, <<30>>>>,
      <<<<"s">>, <<31>>>>,
      <<<<"d">>, <<32>>>>,
      <<<<"f">>, <<33>>>>,
      <<<<"g">>, <<34>>>>,
      <<<<"h">>, <<35>>>>,
      <<<<"j">>, <<36>>>>,
      <<<<"k">>, <<37>>>>,
      <<<<"l">>, <<38>>>>,
      <<<<";">>, <<39>>>>,
      <<<<"APOSTROPHE">>, <<40>>>>,
      <<<<"A">>, <<65566>>>>,
      <<<<"S">>, <<65567>>>>,
      <<<<"D">>, <<65568>>>>,
      <<<<"F">>, <<65569>>>>,
      <<<<"G">>, <<65570>>>>,
      <<<<"H">>, <<65571>>>>,
      <<<<"J">>, <<65572>>>>,
      <<<<"K">>, <<65573>>>>,
      <<<<"L">>, <<65574>>>>,
      <<<<":">>, <<65575>>>>,
      <<<<"QUOTE">>, <<65576>>>>,
      <<<<"e", "n", "t", "e", "r">>, <<28>>>>,
      <<<<"r", "e", "t", "u", "r", "n">>, <<28>>>>,
      <<<<"LF">>, <<28>>>>,
      <<<<"s", "h", "i", "f", "t">>, <<42>>>>,
      <<<<"s", "h", "i", "f", "t", "l", "e", "f", "t">>, <<42>>>>,
      <<<<"z">>, <<44>>>>,
      <<<<"x">>, <<45>>>>,
      <<<<"c">>, <<46>>>>,
      <<<<"v">>, <<47>>>>,
      <<<<"b">>, <<48>>>>,
      <<<<"n">>, <<49>>>>,
      <<<<"m">>, <<50>>>>,
      <<<<",">>, <<51>>>>,
      <<<<".">>, <<52>>>>,
      <<<<"/">>, <<53>>>>,
      <<<<"Z">>, <<65580>>>>,
      <<<<"X">>, <<65581>>>>,
      <<<<"C">>, <<65582>>>>,
      <<<<"V">>, <<65583>>>>,
      <<<<"B">>, <<65584>>>>,
      <<<<"N">>, <<65585>>>>,
      <<<<"M">>, <<65586>>>>,
      <<<<"<">>, <<65587>>>>,
      <<<<">">>, <<65588>>>>,
      <<<<"?">>, <<65589>>>>,
      <<<<"s", "h", "i", "f", "t", "r", "i", "g", "h", "t">>, <<54>>>>,
      <<<<"c", "t", "r", "l">>, <<29>>>>,
      <<<<"c", "t", "r", "l", "l", "e", "f", "t">>, <<29>>>>,
      <<<<"w", "i", "n">>, <<57435>>>>,
      <<<<"s", "u", "p", "e", "r">>, <<57435>>>>,
      <<<<"w", "i", "n", "l", "e", "f", "t">>, <<57435>>>>,
      <<<<"a", "l", "t">>, <<56>>>>,
      <<<<"a", "l", "t", "l", "e", "f", "t">>, <<56>>>>,
      <<<<" ">>, <<57>>>>,
      <<<<"s", "p", "a", "c", "e">>, <<57>>>>,
      <<<<"a", "l", "t", "r", "i", "g", "h", "t">>, <<57400>>>>,
      <<<<"w", "i", "n", "r", "i", "g", "h", "t">>, <<57436>>>>,
      <<<<"a", "p", "p", "s">>, <<57437>>>>,
      <<<<"c", "o", "n", "t", "e", "x", "t">>, <<57437>>>>,
      <<<<"c", "o", "n", "t", "e", "x", "t", "m", "e", "n", "u">>, <<57437>>>>,
      <<<<"c", "t", "r", "l", "r", "i", "g", "h", "t">>, <<57373>>>>,
      <<<<"h", "e", "l", "p">>, <<99>>>>,
      <<<<"s", "l", "e", "e", "p">>, <<57439>>>>,
      <<<<"m", "e", "d", "i", "a", "n", "e", "x", "t">>, <<57369>>>>,
      <<<<"n", "e", "x", "t", "t", "r", "a", "c", "k">>, <<57369>>>>,
      <<<<"m", "e", "d", "i", "a", "p", "r", "e", "v", "i", "o", "u", "s">>, <<57360>>>>,
      <<<<"p", "r", "e", "v", "t", "r", "a", "c", "k">>, <<57360>>>>,
      <<<<"m", "e", "d", "i", "a", "s", "t", "o", "p">>, <<57380>>>>,
      <<<<"s", "t", "o", "p">>, <<57380>>>>,
      <<<<"m", "e", "d", "i", "a", "p", "l", "a", "y">>, <<57378>>>>,
      <<<<"m", "e", "d", "i", "a", "p", "a", "u", "s", "e">>, <<57378>>>>,
      <<<<"p", "l", "a", "y", "p", "a", "u", "s", "e">>, <<57378>>>>,
      <<<<"m", "u", "t", "e">>, <<57376>>>>,
      <<<<"v", "o", "l", "u", "m", "e", "m", "u", "t", "e">>, <<57376>>>>,
      <<<<"v", "o", "l", "u", "m", "e", "u", "p">>, <<57392>>>>,
      <<<<"v", "o", "l", "u", "p">>, <<57392>>>>,
      <<<<"v", "o", "l", "u", "m", "e", "d", "o", "w", "n">>, <<57390>>>>,
      <<<<"v", "o", "l", "d", "o", "w", "n">>, <<57390>>>>,
      <<<<"m", "e", "d", "i", "a">>, <<57453>>>>,
      <<<<"l", "a", "u", "n", "c", "h", "m", "e", "d", "i", "a", "s", "e", "l", "e", "c", "t">>, <<57453>>>>,
      <<<<"e", "m", "a", "i", "l">>, <<57452>>>>,
      <<<<"l", "a", "u", "n", "c", "h", "m", "a", "i", "l">>, <<57452>>>>,
      <<<<"c", "a", "l", "c", "u", "l", "a", "t", "o", "r">>, <<57377>>>>,
      <<<<"c", "a", "l", "c">>, <<57377>>>>,
      <<<<"l", "a", "u", "n", "c", "h", "1">>, <<57451>>>>,
      <<<<"l", "a", "u", "n", "c", "h", "a", "p", "p", "1">>, <<57451>>>>,
      <<<<"l", "a", "u", "n", "c", "h", "2">>, <<57377>>>>,
      <<<<"l", "a", "u", "n", "c", "h", "a", "p", "p", "2">>, <<57377>>>>,
      <<<<"b", "r", "o", "w", "s", "e", "r", "s", "e", "a", "r", "c", "h">>, <<57445>>>>,
      <<<<"b", "r", "o", "w", "s", "e", "r", "h", "o", "m", "e">>, <<57394>>>>,
      <<<<"b", "r", "o", "w", "s", "e", "r", "f", "o", "r", "w", "a", "r", "d">>, <<57449>>>>,
      <<<<"b", "r", "o", "w", "s", "e", "r", "b", "a", "c", "k">>, <<57450>>>>,
      <<<<"b", "r", "o", "w", "s", "e", "r", "s", "t", "o", "p">>, <<57448>>>>,
      <<<<"b", "r", "o", "w", "s", "e", "r", "r", "e", "f", "r", "e", "s", "h">>, <<57447>>>>,
      <<<<"b", "r", "o", "w", "s", "e", "r", "f", "a", "v", "o", "r", "i", "t", "e", "s">>, <<57446>>>>,
      <<<<"f", "1", "3">>, <<100>>>>,
      <<<<"f", "1", "4">>, <<101>>>>,
      <<<<"f", "1", "5">>, <<102>>>>,
      <<<<"f", "1", "6">>, <<103>>>>,
      <<<<"f", "1", "7">>, <<104>>>>,
      <<<<"f", "1", "8">>, <<105>>>>,
      <<<<"f", "1", "9">>, <<106>>>>,
      <<<<"f", "2", "0">>, <<107>>>>,
      <<<<"f", "2", "1">>, <<108>>>>,
      <<<<"f", "2", "2">>, <<109>>>>,
      <<<<"f", "2", "3">>, <<110>>>>,
      <<<<"f", "2", "4">>, <<118>>>>
    }

KeyNames == { e[1] : e \in US_QWERTY_MAPPING }

\* KEYBOARD_MAPPING.update(US_QWERTY_MAPPING)
KEYBOARD_MAPPING ==
    [ k \in KeyNames |-> (CHOOSE e \in US_QWERTY_MAPPING : e[1] = k)[2] ]

\* the scancodes that occur in table values
TableScancodes ==
    UNION { { e[2][i] : i \in 1..Len(e[2]) } : e \in US_QWERTY_MAPPING }
\* the display sizes 1..MaxDisplay are converted pixel by pixel
MaxDisplay == 8
\* of a larger display, the pixels up to MaxPixel away from an edge or from the middle
MaxPixel == 3
\* _add_one_step is called with coordinates in -MaxCoord..MaxCoord
MaxCoord == 6
\* and with up to MaxSteps remaining steps
MaxSteps == 6
\* the times the user moves the mouse during one timed move
MaxDisturbs == 1
(* ----- helpers on sequences --------------------------------------------- *)
RECURSIVE Flatten(_)
Flatten(ss) == IF ss = <<>> THEN <<>> ELSE Head(ss) \o Flatten(Tail(ss))

\* Python's reversed()
Reverse(s) == [ i \in 1..Len(s) |-> s[Len(s) + 1 - i] ]

\* all sequences over S of length lo..hi
SeqsOf(S, lo, hi) == UNION { [1..n -> S] : n \in lo..hi }

(* ----- str.lower() and _normalize_key ----------------------------------- *)
UpperChars ==
    << "A", "B", "C", "D", "E", "F", "G", "H", "I", "J", "K", "L", "M",
       "N", "O", "P", "Q", "R", "S", "T", "U", "V", "W", "X", "Y", "Z" >>

LowerChars ==
    << "a", "b", "c", "d", "e", "f", "g", "h", "i", "j", "k", "l", "m",
       "n", "o", "p", "q", "r", "s", "t", "u", "v", "w", "x", "y", "z" >>

LowerChar(c) ==
    IF \E i \in 1..Len(UpperChars) : UpperChars[i] = c
    THEN LowerChars[CHOOSE i \in 1..Len(UpperChars) : UpperChars[i] = c]
    ELSE c

lower(key) == [ i \in 1..Len(key) |-> LowerChar(key[i]) ]

\* mutant: the name is lowered whatever auto_shift says
normalize_key_lowered(key, auto_shift) == lower(key)

\* return key.lower() if (len(key) > 1 or not auto_shift) else key
normalize_key(key, auto_shift) ==
    IF Len(key) > 1 \/ ~auto_shift THEN lower(key) ELSE key

(* ----- INPUT structures ------------------------------------------------- *)
create_keyboard_input(wScan, dwFlags) ==
    [ wVk |-> 0, wScan |-> wScan, dwFlags |-> dwFlags ]

\* mutant: the Shift event is appended after the key's own event
ScancodeEvents_shiftAfter(scancode, keybdFlags, auto_shift) ==
    LET shifted == auto_shift /\ BitAnd(scancode, OFFSET_SHIFTKEY) # 0
        code == BitAnd(scancode, MASK_WORD)
        extendedFlag == IF code >= OFFSET_EXTENDEDKEY
                        THEN KEYEVENTF_EXTENDEDKEY ELSE 0
    IN  << create_keyboard_input(code, BitOr(keybdFlags, extendedFlag)) >>
        \o (IF shifted
            THEN << create_keyboard_input(SHIFT_SCANCODE, keybdFlags) >>
            ELSE << >>)

\* the loop body of scancode_keyDown / scancode_keyUp for one scancode
ScancodeEvents(scancode, keybdFlags, auto_shift) ==
    LET shifted == auto_shift /\ BitAnd(scancode, OFFSET_SHIFTKEY) # 0
        code == BitAnd(scancode, MASK_WORD)
        extendedFlag == IF code >= OFFSET_EXTENDEDKEY
                        THEN KEYEVENTF_EXTENDEDKEY ELSE 0
    IN  (IF shifted
         THEN << create_keyboard_input(SHIFT_SCANCODE, keybdFlags) >>
         ELSE << >>)
        \o << create_keyboard_input(code, BitOr(keybdFlags, extendedFlag)) >>

\* mutant: the extended-key test looks at the scancode before it is masked
ScancodeBatch_unmasked(scancodes, keybdFlags, auto_shift) ==
    Flatten([ i \in 1..Len(scancodes) |->
      (IF auto_shift /\ BitAnd(scancodes[i], OFFSET_SHIFTKEY) # 0
       THEN << create_keyboard_input(SHIFT_SCANCODE, keybdFlags) >>
       ELSE << >>)
      \o << create_keyboard_input(
               BitAnd(scancodes[i], MASK_WORD),
               BitOr(keybdFlags,
                     IF scancodes[i] >= OFFSET_EXTENDEDKEY
                     THEN KEYEVENTF_EXTENDEDKEY ELSE 0)) >> ])

\* input_structs after the loop over scancodes_sequence
ScancodeBatch(scancodes, keybdFlags, auto_shift) ==
    Flatten([ i \in 1..Len(scancodes) |->
                ScancodeEvents(scancodes[i], keybdFlags, auto_shift) ])

\* char.encode('utf-16be') unpacked into 16-bit code units; a character is
\* its code point, a string the tuple of its characters
Utf16Units(cp) ==
    IF cp < 65536 THEN << cp >>
    ELSE << 55296 + ((cp - 65536) \div 1024), 56320 + ((cp - 65536) % 1024) >>

UnicodeBatch(char, keybdFlags) ==
    LET codes == Flatten([ i \in 1..Len(char) |-> Utf16Units(char[i]) ])
    IN  [ i \in 1..Len(codes) |-> create_keyboard_input(codes[i], keybdFlags) ]

(* ----- primitive steps of a call ---------------------------------------- *)
\* `then` holds the local bookkeeping that follows the step at once
Op(k, tag, batch, n) ==
    [ k |-> k, tag |-> tag, batch |-> batch, n |-> n, then |-> << >> ]
OpCheck        == Op("check", "", <<>>, 0)
OpLocals       == Op("locals", "", <<>>, 0)
OpSend(batch)  == Op("send", "", batch, 0)
OpSleep(what)  == Op("sleep", what, <<>>, 0)
OpFalse        == Op("false", "", <<>>, 0)
OpStore(var)   == Op("store", var, <<>>, 0)
OpAnd          == Op("and", "", <<>>, 0)
OpAdd(var)     == Op("add", var, <<>>, 0)
OpReturn(how, expected) == Op("return", how, <<>>, expected)
OpTry          == Op("try", "", <<>>, 0)
OpYield        == Op("yield", "", <<>>, 0)
OpFinally      == Op("finally", "", <<>>, 0)
OpRaiseOnFailure(expected) == Op("raise_on_failure", "", <<>>, expected)
OpEndFinally   == Op("endfinally", "", <<>>, 0)

\* mutant: any accepted event counts as success
Accepted_any(insertedEvents, expectedEvents) == insertedEvents > 0

\* return insertedEvents == expectedEvents
Accepted(insertedEvents, expectedEvents) == insertedEvents = expectedEvents

(* ----- fail-safe and pause ---------------------------------------------- *)
\* if FAILSAFE and tuple(position()) in FAILSAFE_POINTS: raise
failSafeCheck(failsafe, pos) == failsafe /\ pos \in FAILSAFE_POINTS

\* if _pause: _sleep(PAUSE)
handlePause(pause) == IF pause THEN << OpSleep("PAUSE") >> ELSE << >>

\* mutant: the fail-safe check runs after the wrapped function
genericPyDirectInputChecks_checkLast(body, pause) ==
    body \o << OpCheck >> \o handlePause(pause)

\* wrapper: _failSafeCheck(); returnVal = wrappedFunction(...); _handlePause()
genericPyDirectInputChecks(body, pause) ==
    << OpCheck >> \o body \o handlePause(pause)

(* ----- scancode functions ----------------------------------------------- *)
scancode_keyDown(scancodes, pause, auto_shift) ==
    genericPyDirectInputChecks(
        << OpSend(ScancodeBatch(scancodes, KEYEVENTF_SCANCODE, auto_shift)) >>,
        pause)

scancode_keyUp(scancodes, pause, auto_shift) ==
    genericPyDirectInputChecks(
        << OpSend(ScancodeBatch(scancodes,
                                BitOr(KEYEVENTF_SCANCODE, KEYEVENTF_KEYUP),
                                auto_shift)) >>,
        pause)

helper_scancode_press(scancodes, pause, auto_shift) ==
    scancode_keyDown(scancodes, pause, auto_shift)
    \o << OpStore("d"), OpSleep("duration") >>
    \o scancode_keyUp(scancodes, pause, auto_shift)
    \o << OpStore("u"), OpAnd >>

\* the two nested loops shared by press, scancode_press and unicode_press:
\* one(i) is the step list of the helper for the i-th element
PressLoops(one, len, presses) ==
    << OpLocals >>
    \o Flatten([ r \in 1..presses |->
        (IF r > 1 THEN << OpSleep("interval") >> ELSE << >>)
        \o Flatten([ i \in 1..len |->
              (IF i > 1 THEN << OpSleep("delay") >> ELSE << >>)
              \o one[i] \o << OpAdd("completedPresses") >> ]) ])

scancode_press(scancodes, presses, pause, auto_shift) ==
    genericPyDirectInputChecks(
        PressLoops([ i \in 1..Len(scancodes) |->
                       helper_scancode_press(scancodes[i], FALSE, auto_shift) ],
                   Len(scancodes), presses)
        \o << OpReturn("completed", presses * Len(scancodes)) >>,
        pause)

\* mutant: the finally block releases the keys in the order they were pressed
HoldBody_sameOrder(downs, ups, len) ==
    << OpLocals, OpTry >>
    \o Flatten([ i \in 1..len |-> downs[i] \o << OpAdd("downed") >> ])
    \o << OpYield, OpFinally >>
    \o Flatten([ i \in 1..len |-> ups[i] \o << OpAdd("upped") >> ])
    \o << OpRaiseOnFailure(len), OpEndFinally >>

\* the generator body shared by hold, scancode_hold and unicode_hold:
\* downs[i] / ups[i] are the step lists of the i-th key-down / key-up call
HoldBody(downs, ups, len) ==
    << OpLocals, OpTry >>
    \o Flatten([ i \in 1..len |-> downs[i] \o << OpAdd("downed") >> ])
    \o << OpYield, OpFinally >>
    \o Flatten([ i \in 1..len |-> ups[len + 1 - i] \o << OpAdd("upped") >> ])
    \o << OpRaiseOnFailure(len), OpEndFinally >>

\* @contextmanager over the wrapper: the wrapper checks, creates the
\* generator and pauses; the generator body runs when the context is entered
scancode_hold(scancodes, pause, auto_shift) ==
    genericPyDirectInputChecks(<< >>, pause)
    \o HoldBody([ i \in 1..Len(scancodes) |->
                    scancode_keyDown(scancodes[i], FALSE, auto_shift) ],
                [ i \in 1..Len(scancodes) |->
                    scancode_keyUp(scancodes[i], FALSE, auto_shift) ],
                Len(scancodes))

\* mutant: the second loop releases the keys in the order they were pressed
HotkeyLoops_sameOrder(downs, ups, len) ==
    Flatten([ i \in 1..len |->
        (IF i > 1 THEN << OpSleep("interval") >> ELSE << >>) \o downs[i] ])
    \o << OpSleep("wait") >>
    \o Flatten([ i \in 1..len |->
        (IF i > 1 THEN << OpSleep("interval") >> ELSE << >>) \o ups[i] ])

\* the press and release loops shared by hotkey, scancode_hotkey and
\* unicode_hotkey: downs[i] / ups[i] are the step lists of the i-th calls
HotkeyLoops(downs, ups, len) ==
    Flatten([ i \in 1..len |->
        (IF i > 1 THEN << OpSleep("interval") >> ELSE << >>) \o downs[i] ])
    \o << OpSleep("wait") >>
    \o Flatten([ i \in 1..len |->
        (IF i > 1 THEN << OpSleep("interval") >> ELSE << >>)
        \o ups[len + 1 - i] ])

scancode_hotkey(args, pause, auto_shift) ==
    genericPyDirectInputChecks(
        << OpLocals >>
        \o HotkeyLoops([ i \in 1..Len(args) |->
                        scancode_keyDown(args[i], FALSE, auto_shift)
                        \o << OpAdd("downed") >> ],
                    [ i \in 1..Len(args) |->
                        scancode_keyUp(args[i], FALSE, auto_shift)
                        \o << OpAdd("upped") >> ],
                    Len(args))
        \o << OpReturn("downed_upped", Len(args)) >>,
        pause)

(* ----- key-name functions ----------------------------------------------- *)
\* mutant: the key name is lowered before it is looked up
isValidKey_lowered(key) == lower(key) \in DOMAIN KEYBOARD_MAPPING

\* return key in KEYBOARD_MAPPING
isValidKey(key) == key \in DOMAIN KEYBOARD_MAPPING

\* keyDown is decorated and hands _pause on to the decorated scancode_keyDown
keyDown(key, pause, auto_shift) ==
    genericPyDirectInputChecks(
        IF key \notin KeyNames
        THEN << OpFalse >>
        ELSE scancode_keyDown(KEYBOARD_MAPPING[key], pause, auto_shift),
        pause)

\* keyUp is not decorated
keyUp(key, pause, auto_shift) ==
    IF key \notin KeyNames
    THEN << OpFalse >>
    ELSE scancode_keyUp(KEYBOARD_MAPPING[key], pause, auto_shift)

\* mutant: the helper reports the key-up alone
helper_press_uppedOnly(key, pause, auto_shift) ==
    keyDown(key, pause, auto_shift)
    \o << OpSleep("duration") >>
    \o keyUp(key, pause, auto_shift)

helper_press(key, pause, auto_shift) ==
    keyDown(key, pause, auto_shift)
    \o << OpStore("d"), OpSleep("duration") >>
    \o keyUp(key, pause, auto_shift)
    \o << OpStore("u"), OpAnd >>

\* keys is the list after `if isinstance(keys, str): keys = [keys]`
press(keys, presses, pause, auto_shift) ==
    LET ks == [ i \in 1..Len(keys) |-> normalize_key(keys[i], auto_shift) ]
    IN  genericPyDirectInputChecks(
            PressLoops([ i \in 1..Len(ks) |->
                           helper_press(ks[i], FALSE, auto_shift) ],
                       Len(ks), presses)
            \o << OpReturn("completed", presses * Len(ks)) >>,
            pause)

\* hold calls keyDown and keyUp without _pause, so with its default True
hold(keys, pause, auto_shift) ==
    LET ks == [ i \in 1..Len(keys) |-> normalize_key(keys[i], auto_shift) ]
    IN  genericPyDirectInputChecks(<< >>, pause)
        \o HoldBody([ i \in 1..Len(ks) |-> keyDown(ks[i], TRUE, auto_shift) ],
                    [ i \in 1..Len(ks) |-> keyUp(ks[i], TRUE, auto_shift) ],
                    Len(ks))

\* one press(key, _pause=False, ...) per character of message
typewrite(message, pause, auto_shift) ==
    genericPyDirectInputChecks(
        Flatten([ i \in 1..Len(message) |->
            (IF i > 1 THEN << OpSleep("interval") >> ELSE << >>)
            \o press(<< << message[i] >> >>, 1, FALSE, auto_shift) ])
        \o << OpReturn("none", 0) >>,
        pause)

hotkey(args, pause, auto_shift) ==
    genericPyDirectInputChecks(
        HotkeyLoops([ i \in 1..Len(args) |-> keyDown(args[i], FALSE, auto_shift) ],
                    [ i \in 1..Len(args) |-> keyUp(args[i], FALSE, auto_shift) ],
                    Len(args))
        \o << OpReturn("none", 0) >>,
        pause)

(* ----- unicode functions ------------------------------------------------ *)
unicode_charDown(char, pause) ==
    genericPyDirectInputChecks(
        << OpSend(UnicodeBatch(char, KEYEVENTF_UNICODE)) >>, pause)

unicode_charUp(char, pause) ==
    genericPyDirectInputChecks(
        << OpSend(UnicodeBatch(char,
                               BitOr(KEYEVENTF_UNICODE, KEYEVENTF_KEYUP))) >>,
        pause)

helper_unicode_press_char(char, pause) ==
    unicode_charDown(char, pause)
    \o << OpStore("d"), OpSleep("duration") >>
    \o unicode_charUp(char, pause)
    \o << OpStore("u"), OpAnd >>

unicode_press(chars, presses, pause) ==
    genericPyDirectInputChecks(
        PressLoops([ i \in 1..Len(chars) |->
                       helper_unicode_press_char(chars[i], FALSE) ],
                   Len(chars), presses)
        \o << OpReturn("completed", presses * Len(chars)) >>,
        pause)

\* unicode_hold calls unicode_charDown / unicode_charUp with the default _pause
unicode_hold(chars, pause) ==
    genericPyDirectInputChecks(<< >>, pause)
    \o HoldBody([ i \in 1..Len(chars) |-> unicode_charDown(chars[i], TRUE) ],
                [ i \in 1..Len(chars) |-> unicode_charUp(chars[i], TRUE) ],
                Len(chars))


(* ========================================================================= *)
(* Mouse functions                                                            *)
(* ========================================================================= *)
\* an optional integer: None or a value
None == << >>
Some(v) == << v >>

\* _MOUSEEVENTF_MOVE = 0x0001
MOUSEEVENTF_MOVE == 1
\* _MOUSEEVENTF_LEFTCLICK = LEFTDOWN + LEFTUP = 0x0002 + 0x0004
MOUSEEVENTF_LEFTCLICK == 6
\* _MOUSEEVENTF_RIGHTCLICK = RIGHTDOWN + RIGHTUP = 0x0008 + 0x0010
MOUSEEVENTF_RIGHTCLICK == 24
\* _MOUSEEVENTF_MIDDLECLICK = MIDDLEDOWN + MIDDLEUP = 0x0020 + 0x0040
MOUSEEVENTF_MIDDLECLICK == 96
\* _MOUSEEVENTF_XCLICK = XDOWN + XUP = 0x0080 + 0x0100
MOUSEEVENTF_XCLICK == 384
\* _MOUSEEVENTF_VIRTUALDESK = 0x4000
MOUSEEVENTF_VIRTUALDESK == 16384
\* _MOUSEEVENTF_ABSOLUTE = 0x8000
MOUSEEVENTF_ABSOLUTE == 32768
\* _XBUTTON1 = 0x0001, _XBUTTON2 = 0x0002
XBUTTON1 == 1
XBUTTON2 == 2

\* _MOUSE_MAPPING_EVENTF[button][_MOUSE_CLICK]
MOUSE_MAPPING_EVENTF ==
    [ left |-> MOUSEEVENTF_LEFTCLICK, middle |-> MOUSEEVENTF_MIDDLECLICK,
      right |-> MOUSEEVENTF_RIGHTCLICK,
      mouse4 |-> MOUSEEVENTF_XCLICK, x1 |-> MOUSEEVENTF_XCLICK,
      mouse5 |-> MOUSEEVENTF_XCLICK, x2 |-> MOUSEEVENTF_XCLICK ]

MOUSE_MAPPING_DATA ==
    [ left |-> 0, middle |-> 0, right |-> 0,
      mouse4 |-> XBUTTON1, x1 |-> XBUTTON1,
      mouse5 |-> XBUTTON2, x2 |-> XBUTTON2 ]

create_mouse_input(dx, dy, mouseData, dwFlags) ==
    [ dx |-> dx, dy |-> dy, mouseData |-> mouseData, dwFlags |-> dwFlags ]

\* the click event of a button; buttons_swapped is what
\* _get_system_metrics(_SM_SWAPBUTTON) != 0 gives
get_mouse_struct_data(button, buttons_swapped) ==
    LET b == CASE button = "primary" ->
                    (IF buttons_swapped THEN "right" ELSE "left")
               [] button = "secondary" ->
                    (IF buttons_swapped THEN "left" ELSE "right")
               [] OTHER -> button
    IN  [ event_value |-> IF b \in DOMAIN MOUSE_MAPPING_EVENTF
                          THEN Some(MOUSE_MAPPING_EVENTF[b]) ELSE None,
          mouseData |-> IF b \in DOMAIN MOUSE_MAPPING_DATA
                        THEN MOUSE_MAPPING_DATA[b] ELSE 0 ]

OpRaise(exc) == Op("raise", exc, <<>>, 0)

\* mutant: the interval is slept before every click, the first included
ClickLoop_sleepFirst(clicks, mouseData, event_value) ==
    Flatten([ i \in 1..clicks |->
        << OpSleep("interval"),
           OpSend(<< create_mouse_input(0, 0, mouseData, event_value) >>) >> ])

\* for _ in range(clicks): if apply_interval: _sleep(interval); ...
ClickLoop(clicks, mouseData, event_value) ==
    Flatten([ i \in 1..clicks |->
        (IF i > 1 THEN << OpSleep("interval") >> ELSE << >>)
        \o << OpSend(<< create_mouse_input(0, 0, mouseData, event_value) >>) >> ])

\* click(clicks=clicks, button=button, _pause=pause), x and y left at None
click(clicks, button, buttons_swapped, pause) ==
    LET d == get_mouse_struct_data(button, buttons_swapped)
    IN  genericPyDirectInputChecks(
            IF d.event_value = None \/ d.event_value = Some(0)
            THEN << OpRaise("ValueError") >>
            ELSE ClickLoop(clicks, d.mouseData, d.event_value[1])
                 \o << OpReturn("none", 0) >>,
            pause)

\* doubleClick and tripleClick are not decorated; they call click
doubleClick(button, buttons_swapped, pause) ==
    click(2, button, buttons_swapped, pause)

tripleClick(button, buttons_swapped, pause) ==
    click(3, button, buttons_swapped, pause)

(* ----- system settings for mouse movement -------------------------------- *)
\* SystemParametersInfoW(SPI_GETMOUSE): (threshold1, threshold2, epp)
get_mouse_parameters(sp) == << sp.th1, sp.th2, sp.epp >>

\* SystemParametersInfoW(SPI_SETMOUSE)
set_mouse_parameters(sp, threshold1, threshold2, enhanced_pointer_precision) ==
    [ sp EXCEPT !.th1 = threshold1, !.th2 = threshold2,
                !.epp = enhanced_pointer_precision ]

\* SystemParametersInfoW(SPI_GETMOUSESPEED)
get_mouse_speed(sp) == sp.speed

\* SystemParametersInfoW(SPI_SETMOUSESPEED)
set_mouse_speed(sp, mouse_speed) == [ sp EXCEPT !.speed = mouse_speed ]

(* ----- __MouseSpeedSettings ---------------------------------------------- *)
\* the class variables as the class statement leaves them
ClassVars ==
    [ context_manager_epp |-> None, context_manager_speed |-> None,
      context_manager_count |-> 0,
      manual_store_epp |-> None, manual_store_speed |-> None ]

get_manual_mouse_settings(cls) ==
    << cls.manual_store_epp, cls.manual_store_speed >>

set_manual_mouse_settings(cls, enhanced_pointer_precision_enabled, mouse_speed) ==
    [ cls EXCEPT !.manual_store_epp = Some(enhanced_pointer_precision_enabled),
                 !.manual_store_speed = Some(mouse_speed) ]

\* the class after the call, and the pair the call returns
get_ctxtmgr_mouse_settings(cls) ==
    LET c == [ cls EXCEPT !.context_manager_count = @ - 1 ]
    IN  IF c.context_manager_count > 0
        THEN [ cls |-> c, epp |-> None, speed |-> None ]
        ELSE [ cls |-> [ c EXCEPT !.context_manager_epp = None,
                                  !.context_manager_speed = None ],
               epp |-> c.context_manager_epp,
               speed |-> c.context_manager_speed ]

set_ctxtmgr_mouse_settings(cls, enhanced_pointer_precision_enabled, mouse_speed) ==
    LET c == [ cls EXCEPT !.context_manager_count = @ + 1 ]
    IN  IF c.context_manager_count > 1
        THEN c
        ELSE [ c EXCEPT
                 !.context_manager_epp = Some(enhanced_pointer_precision_enabled),
                 !.context_manager_speed = Some(mouse_speed) ]

(* ----- _without_mouse_acceleration --------------------------------------- *)
\* the statements before `yield`, run by one thread without interruption:
\* the system, the class and the generator's th1, th2 afterwards
without_mouse_acceleration_enter(sp, cls) ==
    LET p == get_mouse_parameters(sp)
        speed == get_mouse_speed(sp)
    IN  [ cls |-> set_ctxtmgr_mouse_settings(cls, p[3], speed),
          sp |-> IF p[3] # 0 THEN set_mouse_parameters(sp, p[1], p[2], 0)
                 ELSE sp,
          th1 |-> p[1], th2 |-> p[2] ]

\* mutant: nothing is written back when the context is left
without_mouse_acceleration_exit_keep(sp, cls, th1, th2) ==
    [ cls |-> get_ctxtmgr_mouse_settings(cls).cls, sp |-> sp ]

\* the finally block, run by one thread without interruption
without_mouse_acceleration_exit(sp, cls, th1, th2) ==
    LET g == get_ctxtmgr_mouse_settings(cls)
        sp1 == IF g.epp # None
               THEN set_mouse_parameters(sp, th1, th2, g.epp[1]) ELSE sp
        sp2 == IF g.speed # None THEN set_mouse_speed(sp1, g.speed[1]) ELSE sp1
    IN  [ cls |-> g.cls, sp |-> sp2 ]

\* store_mouse_acceleration_settings()
store_mouse_acceleration_settings(sp, cls) ==
    set_manual_mouse_settings(cls, get_mouse_parameters(sp)[3],
                              get_mouse_speed(sp))

\* mutant: the thresholds are not read again, the defaults are written
restore_mouse_acceleration_settings_defaults(sp, cls) ==
    LET m == get_manual_mouse_settings(cls)
    IN  IF m[1] = None \/ m[2] = None
        THEN [ raised |-> TRUE, sp |-> sp ]
        ELSE [ raised |-> FALSE,
               sp |-> set_mouse_speed(
                          set_mouse_parameters(sp, 6, 10, m[1][1]), m[2][1]) ]

\* restore_mouse_acceleration_settings(): ValueError or the system afterwards
restore_mouse_acceleration_settings(sp, cls) ==
    LET m == get_manual_mouse_settings(cls)
        p == get_mouse_parameters(sp)
    IN  IF m[1] = None \/ m[2] = None
        THEN [ raised |-> TRUE, sp |-> sp ]
        ELSE [ raised |-> FALSE,
               sp |-> set_mouse_speed(
                          set_mouse_parameters(sp, p[1], p[2], m[1][1]),
                          m[2][1]) ]

(* ----- coordinates -------------------------------------------------------- *)
\* _get_system_metrics(_SM_CXSCREEN) and _get_system_metrics(_SM_CYSCREEN):
\* a screen of three by three pixels
ScreenWidth == 3
ScreenHeight == 3

\* size(): the resolution of the primary monitor
size == << ScreenWidth, ScreenHeight >>

\* mutant: the pixel's lower edge, cut off
calc_normalized_screen_coord_floor(pixel_coord, display_total) ==
    (pixel_coord * 65536) \div display_total

\* (a * 65536 + c) // d in Python's unbounded integers, for 0 <= a <= 65536
\* and 0 <= c < d <= 65536: a long division in two steps of 256, so that no
\* intermediate value leaves the 32-bit range of the model checker
ScaledFloorDiv(a, c, d) ==
    LET q1 == (a * 256) \div d
        r1 == (a * 256) % d
    IN  q1 * 256 + (r1 * 256 + c) \div d

\* mutant: the average of the two edges is rounded up
calc_normalized_screen_coord_up(pixel_coord, display_total) ==
    LET this_pixel == ScaledFloorDiv(pixel_coord, display_total - 1,
                                     display_total)
        next_pixel == ScaledFloorDiv(pixel_coord + 1, display_total - 1,
                                     display_total)
    IN  (this_pixel + next_pixel + 1) \div 2

calc_normalized_screen_coord(pixel_coord, display_total) ==
    LET this_pixel == ScaledFloorDiv(pixel_coord, display_total - 1,
                                     display_total)
        next_pixel == ScaledFloorDiv(pixel_coord + 1, display_total - 1,
                                     display_total)
    IN  (this_pixel + next_pixel) \div 2

\* virtual=False
to_windows_coordinates(x, y) ==
    << calc_normalized_screen_coord(x, size[1]),
       calc_normalized_screen_coord(y, size[2]) >>

\* round(): to the nearest integer, a tie to the even one; n / d with d > 0
Round(n, d) ==
    LET q == n \div d
        r == n % d
    IN  IF 2 * r < d THEN q
        ELSE IF 2 * r > d THEN q + 1
        ELSE IF q % 2 = 0 THEN q ELSE q + 1

\* mutant: the step is cut off towards the current coordinate
add_one_step_floor(current, target, remaining_steps) ==
    IF remaining_steps <= 1 THEN target
    ELSE (target + current * (remaining_steps - 1)) \div remaining_steps

\* target - (target - current) * (remaining_steps - 1) / remaining_steps
\*   = (target + current * (remaining_steps - 1)) / remaining_steps
add_one_step(current, target, remaining_steps) ==
    IF remaining_steps <= 1 THEN target
    ELSE Round(target + current * (remaining_steps - 1), remaining_steps)

Min(a, b) == IF a <= b THEN a ELSE b
Max(a, b) == IF a >= b THEN a ELSE b
Abs(a) == IF a < 0 THEN -a ELSE a

\* position(x, y): the cursor's coordinate for an axis given as None
position(pos, x, y) ==
    << IF x = None THEN pos[1] ELSE x[1], IF y = None THEN pos[2] ELSE y[1] >>

\* mutant: the offsets are counted from the origin
RelativeTarget_fromOrigin(pos, x, y) ==
    << IF x = None THEN 0 ELSE x[1], IF y = None THEN 0 ELSE y[1] >>

\* current_x, current_y = position();
\* final = current + (0 if x is None else x, 0 if y is None else y)
RelativeTarget(pos, x, y) ==
    << pos[1] + (IF x = None THEN 0 ELSE x[1]),
       pos[2] + (IF y = None THEN 0 ELSE y[1]) >>

(* ----- what Windows does with a move event -------------------------------- *)
Clamp(v, total) == Max(0, Min(total - 1, v))

\* an absolute move: the normalized coordinate n of 0..65535 stands for the
\* pixel n * total / 65536; the cursor stays on the screen
PixelOf(n, total) == Clamp((n * total) \div 65536, total)

\* where the cursor is after the event
Moved(pos, ev) ==
    IF (ev.dwFlags \div MOUSEEVENTF_ABSOLUTE) % 2 = 1
    THEN << PixelOf(ev.dx, size[1]), PixelOf(ev.dy, size[2]) >>
    ELSE << Clamp(pos[1] + ev.dx, size[1]), Clamp(pos[2] + ev.dy, size[2]) >>

(* ----- moveTo and moveRel as lists of steps -------------------------------- *)
OpMoveTo          == Op("moveTo", "", <<>>, 0)
OpMoveToLoop      == Op("moveTo_loop", "", <<>>, 0)
OpMoveToAfterCare == Op("moveTo_aftercare", "", <<>>, 0)
OpMoveRel         == Op("moveRel", "", <<>>, 0)
OpMoveRelLoop     == Op("moveRel_loop", "", <<>>, 0)

\* moveTo: the assignments before the loop, the loop, the after-care
moveTo(pause) ==
    genericPyDirectInputChecks(
        << OpMoveTo, OpMoveToLoop, OpMoveToAfterCare >>, pause)

\* moveRel: with relative=False a call of moveTo(..., _pause=False,
\* relative=True), else the loop of relative moves
moveRel(relative, pause) ==
    genericPyDirectInputChecks(
        << OpMoveRel >>
        \o (IF relative THEN << OpMoveRelLoop >> ELSE moveTo(FALSE)),
        pause)

\* mutant: the segments are counted from the signed distance
MoveToSegments_signed(timeleft, final_x, final_y, current_x, current_y) ==
    Min(timeleft, Max(final_x - current_x, final_y - current_y))

\* time_segments of moveTo: min(int((final_time - _time()) /
\* MINIMUM_SLEEP_ACTUAL), max(abs(final_x - current_x), abs(final_y - current_y)))
MoveToSegments(timeleft, final_x, final_y, current_x, current_y) ==
    Min(timeleft, Max(Abs(final_x - current_x), Abs(final_y - current_y)))

\* time_segments of moveRel: min(int((final_time - _time()) /
\* MINIMUM_SLEEP_ACTUAL), max(xOffset - current_x, yOffset - current_y))
MoveRelSegments(timeleft, xOffset, yOffset, current_x, current_y) ==
    Min(timeleft, Max(xOffset - current_x, yOffset - current_y))
(* ----- state ------------------------------------------------------------ *)
VARIABLES
    FAILSAFE,   \* the module global FAILSAFE
    cursor,     \* what position() returns
    pc,         \* "idle", "running", "body" (inside a with-body), "done"
                \* (the call is over and its effects can be inspected)
    call,       \* the library call in progress or last finished
    ops,        \* the steps the call has still to execute
    trace,      \* the SendInput calls and sleeps of the call so far
    ret,        \* the value returned last: "True", "False" or "None"
    locals,     \* downed / upped / completedPresses and the helper's bools
    pending,    \* the exception in flight while a finally block runs
    outcome,    \* "none", "returned" or the exception that left the call
    rejects,    \* SendInput calls of this call that accepted too few events
    SystemParameters,   \* what SystemParametersInfoW reads and writes:
                        \* SPI_GETMOUSE / SPI_SETMOUSE (th1, th2, epp) and
                        \* SPI_GETMOUSESPEED / SPI_SETMOUSESPEED (speed)
    MouseSpeedSettings, \* the class variables of __MouseSpeedSettings
    mv,         \* the arguments and local variables of the mouse function
                \* being executed
    prev,       \* the move() call finished just before the current call, if
                \* the current call is the move() that undoes it
    threads     \* the threads inside _without_mouse_acceleration

mouseVars == << SystemParameters, MouseSpeedSettings, mv, prev, threads >>

vars == << FAILSAFE, cursor, pc, call, ops, trace, ret, locals,
           pending, outcome, rejects, SystemParameters, MouseSpeedSettings,
           mv, prev, threads >>

(* ----- inputs ----------------------------------------------------------- *)
\* cursor positions: the fail-safe corner and a point off it
Positions == { <<0, 0>>, <<1, 1>> }

\* key names handed to the list-taking functions: a shifted key (the plain
\* key a once lowered), a mixed-case name of an extended key, and a name
\* with no mapping
NameInputs == { <<"A">>, <<"D", "e", "l">>, <<"n", "o">> }

\* key names handed to hotkey, which looks them up as they are
HotkeyInputs == { <<"A">>, <<"d", "e", "l">>, <<"n", "o">> }

\* key names handed to keyDown / keyUp: the whole table and two unmapped names
KeyInputs == KeyNames \cup { <<"D", "e", "l">>, <<"n", "o">> }

\* every value of the table, as handed to scancode_keyDown / scancode_keyUp
ScancodeInputs == { e[2] : e \in US_QWERTY_MAPPING }

\* scancodes handed to the list-taking scancode functions: A, del
ScancodeListInputs == { <<65566>>, <<57427>> }

\* characters of a typewrite message: a, A and carriage return (no mapping)
TypeChars == { "a", "A", "CR" }

\* strings handed to the unicode functions: U+1F600 and the two-character
\* string U+20AC "a"
CharInputs == { <<128512>>, <<8364, 97>> }

NoCall ==
    [ fn |-> "none", keys |-> <<>>, isStr |-> FALSE, presses |-> 0,
      pause |-> FALSE, auto_shift |-> FALSE, raise_on_failure |-> FALSE ]

NoLocals ==
    [ d |-> FALSE, u |-> FALSE, downed |-> 0, upped |-> 0,
      completedPresses |-> 0 ]

\* buttons handed to click: a name of the table, the two aliases that
\* depend on the swap setting, a side button, and a name with no mapping
Buttons == { "left", "primary", "secondary", "mouse5", "none" }

NoFrame ==
    [ x |-> None, y |-> None, duration |-> 0, relative |-> FALSE,
      attempt_pixel_perfect |-> FALSE, disable_mouse_acceleration |-> FALSE,
      final_x |-> 0, final_y |-> 0, current_x |-> 0, current_y |-> 0,
      timeleft |-> 0, apply_duration |-> FALSE, stall |-> 0 ]

NoClick == [ clicks |-> 0, button |-> "", buttons_swapped |-> FALSE ]

\* the system's defaults, and the class once the module is imported: the
\* last statement of the module is store_mouse_acceleration_settings()
DefaultParameters == [ th1 |-> 6, th2 |-> 10, epp |-> 1, speed |-> 10 ]

\* no mouse function is being executed
NoMove ==
    [ fn |-> "none", start |-> << 0, 0 >>, click |-> NoClick,
      args |-> NoFrame, f |-> NoFrame, before |-> DefaultParameters ]

NoPrev == [ fn |-> "none", dx |-> 0, dy |-> 0, start |-> << 0, 0 >> ]

\* the pixels of the screen
Screen == (0..(ScreenWidth - 1)) \X (0..(ScreenHeight - 1))

\* coordinates handed to moveTo: None, pixels of the axis, and the first
\* coordinate off the screen
XInputs == { None } \cup { Some(v) : v \in 0..ScreenWidth }
YInputs == { None, Some(0), Some(ScreenHeight) }

\* offsets handed to move()
Offsets == { None, Some(-2), Some(-1), Some(1), Some(2) }

\* offsets handed to moveRel(relative=True)
RelativeOffsets == { None, Some(-2), Some(1), Some(2) }

\* what the user can set in the control panel
Settings ==
    { [ th1 |-> t[1], th2 |-> t[2], epp |-> e, speed |-> t[3] ] :
        t \in { << 6, 10, 10 >>, << 0, 0, 6 >> }, e \in { 0, 1 } }

InitMouse ==
    /\ SystemParameters = DefaultParameters
    /\ MouseSpeedSettings
         = store_mouse_acceleration_settings(DefaultParameters, ClassVars)
    /\ mv = NoMove
    /\ prev = NoPrev
    /\ threads = << >>

Bool(b) == IF b THEN "True" ELSE "False"

Init ==
    /\ FAILSAFE = TRUE
    /\ cursor \in Positions
    /\ pc = "idle"
    /\ call = NoCall
    /\ ops = << >>
    /\ trace = << >>
    /\ ret = "None"
    /\ locals = NoLocals
    /\ pending = "none"
    /\ outcome = "none"
    /\ rejects = 0
    /\ InitMouse

(* ----- raising ---------------------------------------------------------- *)
\* the remaining steps once an exception is raised at the head of `rest`:
\* inside a try block control resumes after its `finally:` line, elsewhere
\* the exception leaves the call
Handler(rest) ==
    LET marks == { i \in 1..Len(rest) : rest[i].k \in { "try", "finally" } }
        first == CHOOSE i \in marks : \A j \in marks : i <= j
    IN  IF marks # {} /\ rest[first].k = "finally"
        THEN SubSeq(rest, first + 1, Len(rest))
        ELSE << >>

Caught(rest) ==
    \E i \in 1..Len(rest) :
        /\ rest[i].k = "finally"
        /\ \A j \in 1..(i - 1) : rest[j].k # "try"

Raise(exc) ==
    IF Caught(ops)
    THEN /\ ops' = Handler(ops)
         /\ pending' = exc
         /\ pc' = "running"
         /\ outcome' = outcome
    ELSE /\ ops' = << >>
         /\ pending' = "none"
         /\ pc' = "done"
         /\ outcome' = exc

(* ----- local bookkeeping ------------------------------------------------ *)
LocalKinds == { "locals", "false", "store", "and", "add", "return" }

\* the local variables after one assignment
LocalsAfter(op, ls, r) ==
    CASE op.k = "locals" -> NoLocals
      [] op.k = "store"  -> [ ls EXCEPT ![op.tag] = (r = "True") ]
      [] op.k = "add"    ->
           [ ls EXCEPT ![op.tag] = @ + (IF r = "True" THEN 1 ELSE 0) ]
      [] OTHER -> ls

\* the value returned last after one return statement
RetAfter(op, ls, r) ==
    CASE op.k = "false" -> "False"
      [] op.k = "and"   -> Bool(ls.d /\ ls.u)
      [] op.k = "return" /\ op.tag = "completed" ->
           Bool(ls.completedPresses = op.n)
      [] op.k = "return" /\ op.tag = "downed_upped" ->
           Bool(op.n = ls.downed /\ ls.downed = ls.upped)
      [] op.k = "return" /\ op.tag = "none" -> "None"
      [] OTHER -> r

RECURSIVE RunLocals(_, _, _)
RunLocals(s, ls, r) ==
    IF s = << >> THEN [ locals |-> ls, ret |-> r ]
    ELSE RunLocals(Tail(s), LocalsAfter(Head(s), ls, r),
                   RetAfter(Head(s), ls, r))

\* attach every run of local bookkeeping to the step it follows
RECURSIVE FuseInto(_, _)
FuseInto(acc, s) ==
    IF s = << >> THEN acc
    ELSE LET op == Head(s)
             n == Len(acc)
         IN  IF /\ op.k \in LocalKinds
                /\ n > 0
                /\ acc[n].k \in LocalKinds \cup { "check", "send", "sleep" }
             THEN FuseInto([ acc EXCEPT ![n].then = Append(@, op) ], Tail(s))
             ELSE FuseInto(Append(acc, op), Tail(s))

Fuse(s) == FuseInto(<< >>, s)

\* the bookkeeping done by the step at the head of the list
Effect(op, ls, r) ==
    RunLocals((IF op.k \in LocalKinds THEN << op >> ELSE << >>) \o op.then,
              ls, r)

(* ----- a library call --------------------------------------------------- *)
\* Entering the call runs the decorator's _failSafeCheck at once, when the
\* function is decorated (its first step is the check)
Enter(c, body) ==
    LET steps == Fuse(body)
        checked == Head(steps).k = "check"
        tripped == checked /\ failSafeCheck(FAILSAFE, cursor)
        after == Effect(Head(steps), NoLocals, "None")
    IN  /\ pc = "idle"
        /\ Cardinality({ i \in 1..Len(body) : body[i].k = "send" }) <= MaxSends
        /\ call' = c
        /\ trace' = << >>
        /\ ret' = IF checked /\ ~tripped THEN after.ret ELSE "None"
        /\ locals' = IF checked /\ ~tripped THEN after.locals ELSE NoLocals
        /\ pending' = "none"
        /\ rejects' = 0
        /\ pc' = IF tripped THEN "done" ELSE "running"
        /\ outcome' = IF tripped THEN "FailSafeException" ELSE "none"
        /\ ops' = IF tripped THEN << >>
                  ELSE IF checked THEN Tail(steps) ELSE steps
        /\ UNCHANGED << FAILSAFE, cursor >>

Call(c, body) == Enter(c, body) /\ UNCHANGED mouseVars

\* an offset given as None counts as 0
OffsetOf(v) == IF v = None THEN 0 ELSE v[1]

\* the call m is move(-dx, -dy) right after the move(dx, dy) that p records
Reverses(m, p) ==
    /\ m.fn = "moveRel" /\ ~m.args.relative
    /\ p.fn = "moveRel"
    /\ OffsetOf(m.args.x) = -p.dx
    /\ OffsetOf(m.args.y) = -p.dy

\* a call of a mouse function, with its arguments; prev is kept for the
\* call that undoes it
MouseCall(c, m, body) ==
    /\ Enter(c, body)
    /\ mv' = m
    /\ prev' = IF Reverses(m, prev) THEN prev ELSE NoPrev
    /\ UNCHANGED << SystemParameters, MouseSpeedSettings, threads >>

Args(fn, keys, isStr, presses, pause, auto_shift, rof) ==
    [ fn |-> fn, keys |-> keys, isStr |-> isStr, presses |-> presses,
      pause |-> pause, auto_shift |-> auto_shift, raise_on_failure |-> rof ]

KeyLists(S) == SeqsOf(S, 0, MaxKeys)

\* a str argument is one key; a list argument has up to MaxKeys keys
KeysArgs(S) ==
    { [ isStr |-> TRUE, keys |-> << k >> ] : k \in S }
    \cup { [ isStr |-> FALSE, keys |-> ks ] : ks \in KeyLists(S) }

Call_scancode_keyDown ==
    /\ pc = "idle"
    /\ \E sc \in ScancodeInputs, p \in BOOLEAN, a \in BOOLEAN :
        Call(Args("scancode_keyDown", << sc >>, FALSE, 1, p, a, FALSE),
             scancode_keyDown(sc, p, a))

Call_scancode_keyUp ==
    /\ pc = "idle"
    /\ \E sc \in ScancodeInputs, p \in BOOLEAN, a \in BOOLEAN :
        Call(Args("scancode_keyUp", << sc >>, FALSE, 1, p, a, FALSE),
             scancode_keyUp(sc, p, a))

\* isValidKey is not decorated and injects nothing: it returns at once
Call_isValidKey ==
    /\ pc = "idle"
    /\ \E key \in KeyInputs :
        /\ call' = Args("isValidKey", << key >>, TRUE, 0, FALSE, FALSE, FALSE)
        /\ ret' = Bool(isValidKey(key))
    /\ pc' = "done"
    /\ outcome' = "returned"
    /\ UNCHANGED << FAILSAFE, cursor, ops, trace, locals, pending, rejects >>
    /\ UNCHANGED mouseVars

Call_keyDown ==
    /\ pc = "idle"
    /\ \E key \in KeyInputs, p \in BOOLEAN, a \in BOOLEAN :
        Call(Args("keyDown", << key >>, TRUE, 1, p, a, FALSE),
             keyDown(key, p, a))

Call_keyUp ==
    /\ pc = "idle"
    /\ \E key \in KeyInputs, p \in BOOLEAN, a \in BOOLEAN :
        Call(Args("keyUp", << key >>, TRUE, 1, p, a, FALSE),
             keyUp(key, p, a))

Call_unicode_charDown ==
    /\ pc = "idle"
    /\ \E char \in CharInputs, p \in BOOLEAN :
        Call(Args("unicode_charDown", << char >>, TRUE, 1, p, FALSE, FALSE),
             unicode_charDown(char, p))

Call_unicode_charUp ==
    /\ pc = "idle"
    /\ \E char \in CharInputs, p \in BOOLEAN :
        Call(Args("unicode_charUp", << char >>, TRUE, 1, p, FALSE, FALSE),
             unicode_charUp(char, p))

Call_press ==
    /\ pc = "idle"
    /\ \E ka \in KeysArgs(NameInputs), n \in 0..MaxPresses,
       p \in BOOLEAN, a \in BOOLEAN :
        Call(Args("press", ka.keys, ka.isStr, n, p, a, FALSE),
             press(ka.keys, n, p, a))

Call_scancode_press ==
    /\ pc = "idle"
    /\ \E ka \in KeysArgs(ScancodeListInputs), n \in 0..MaxPresses,
       p \in BOOLEAN, a \in BOOLEAN :
        Call(Args("scancode_press", ka.keys, ka.isStr, n, p, a, FALSE),
             scancode_press(ka.keys, n, p, a))

Call_unicode_press ==
    /\ pc = "idle"
    /\ \E ka \in KeysArgs(CharInputs), n \in 0..MaxPresses, p \in BOOLEAN :
        Call(Args("unicode_press", ka.keys, ka.isStr, n, p, FALSE, FALSE),
             unicode_press(ka.keys, n, p))

Call_typewrite ==
    /\ pc = "idle"
    /\ \E m \in KeyLists(TypeChars), p \in BOOLEAN, a \in BOOLEAN :
        Call(Args("typewrite", << m >>, TRUE, 1, p, a, FALSE),
             typewrite(m, p, a))

Call_hold ==
    /\ pc = "idle"
    /\ \E ka \in KeysArgs(NameInputs), p \in BOOLEAN, a \in BOOLEAN,
       r \in BOOLEAN :
        Call(Args("hold", ka.keys, ka.isStr, 1, p, a, r),
             hold(ka.keys, p, a))

Call_scancode_hold ==
    /\ pc = "idle"
    /\ \E ka \in KeysArgs(ScancodeListInputs), p \in BOOLEAN, a \in BOOLEAN,
       r \in BOOLEAN :
        Call(Args("scancode_hold", ka.keys, ka.isStr, 1, p, a, r),
             scancode_hold(ka.keys, p, a))

Call_unicode_hold ==
    /\ pc = "idle"
    /\ \E ka \in KeysArgs(CharInputs), p \in BOOLEAN, r \in BOOLEAN :
        Call(Args("unicode_hold", ka.keys, ka.isStr, 1, p, FALSE, r),
             unicode_hold(ka.keys, p))

Call_hotkey ==
    /\ pc = "idle"
    /\ \E ks \in KeyLists(HotkeyInputs), p \in BOOLEAN, a \in BOOLEAN :
        Call(Args("hotkey", ks, FALSE, 1, p, a, FALSE), hotkey(ks, p, a))

Call_scancode_hotkey ==
    /\ pc = "idle"
    /\ \E ks \in KeyLists(ScancodeListInputs), p \in BOOLEAN, a \in BOOLEAN :
        Call(Args("scancode_hotkey", ks, FALSE, 1, p, a, FALSE),
             scancode_hotkey(ks, p, a))

(* ----- the steps of a call ---------------------------------------------- *)
Running(kinds) == pc = "running" /\ ops # << >> /\ Head(ops).k \in kinds

\* _failSafeCheck() of a nested decorated call
FailSafeCheck ==
    /\ Running({ "check" })
    /\ IF failSafeCheck(FAILSAFE, cursor)
       THEN /\ Raise("FailSafeException")
            /\ UNCHANGED << ret, locals >>
       ELSE /\ ops' = Tail(ops)
            /\ ret' = Effect(Head(ops), locals, ret).ret
            /\ locals' = Effect(Head(ops), locals, ret).locals
            /\ UNCHANGED << pc, pending, outcome >>
    /\ UNCHANGED << FAILSAFE, cursor, call, trace, rejects >>
    /\ UNCHANGED mouseVars

\* insertedEvents = _send_input(input_structs);
\* return insertedEvents == expectedEvents
SendInput ==
    /\ Running({ "send" })
    /\ \E n \in 0..Len(Head(ops).batch) :
        /\ n < Len(Head(ops).batch) => rejects < MaxRejects
        /\ rejects' = IF n < Len(Head(ops).batch) THEN rejects + 1 ELSE rejects
        /\ trace' = Append(trace, [ op |-> "send", batch |-> Head(ops).batch,
                                    n |-> n, what |-> "" ])
        /\ LET after == Effect(Head(ops), locals,
                               Bool(Accepted(n, Len(Head(ops).batch))))
           IN  ret' = after.ret /\ locals' = after.locals
    /\ ops' = Tail(ops)
    /\ UNCHANGED << FAILSAFE, cursor, pc, call, pending, outcome >>
    /\ UNCHANGED mouseVars

\* _sleep(...)
Sleep ==
    /\ Running({ "sleep" })
    /\ trace' = Append(trace, [ op |-> "sleep", batch |-> << >>, n |-> 0,
                                what |-> Head(ops).tag ])
    /\ ret' = Effect(Head(ops), locals, ret).ret
    /\ locals' = Effect(Head(ops), locals, ret).locals
    /\ ops' = Tail(ops)
    /\ UNCHANGED << FAILSAFE, cursor, pc, call, pending, outcome,
                    rejects >>
    /\ UNCHANGED mouseVars

\* assignments to local variables and return statements that follow no
\* other step, and the `try:` / `finally:` lines
Local ==
    /\ Running(LocalKinds \cup { "try", "finally" })
    /\ ret' = Effect(Head(ops), locals, ret).ret
    /\ locals' = Effect(Head(ops), locals, ret).locals
    /\ ops' = Tail(ops)
    /\ UNCHANGED << FAILSAFE, cursor, pc, call, trace, pending, outcome,
                    rejects >>
    /\ UNCHANGED mouseVars

\* `yield`: the context is entered and the with-body starts
Yield ==
    /\ Running({ "yield" })
    /\ pc' = "body"
    /\ trace' = Append(trace, [ op |-> "yield", batch |-> << >>, n |-> 0,
                                what |-> "" ])
    /\ UNCHANGED << FAILSAFE, cursor, call, ops, ret, locals, pending,
                    outcome, rejects >>
    /\ UNCHANGED mouseVars

\* the with-body finishes normally
BodyReturns ==
    /\ pc = "body"
    /\ pc' = "running"
    /\ ops' = Tail(ops)
    /\ UNCHANGED << FAILSAFE, cursor, call, trace, ret, locals, pending,
                    outcome, rejects >>
    /\ UNCHANGED mouseVars

\* the with-body raises: the exception is thrown into the generator at `yield`
BodyRaises ==
    /\ pc = "body"
    /\ Raise("BodyException")
    /\ UNCHANGED << FAILSAFE, cursor, call, trace, ret, locals, rejects >>
    /\ UNCHANGED mouseVars

\* if raise_on_failure and not (expectedPresses == downed == upped): raise
RaiseOnFailure ==
    /\ Running({ "raise_on_failure" })
    /\ IF /\ call.raise_on_failure
          /\ ~(Head(ops).n = locals.downed /\ locals.downed = locals.upped)
       THEN Raise("PriorInputFailedException")
       ELSE /\ ops' = Tail(ops)
            /\ UNCHANGED << pc, pending, outcome >>
    /\ UNCHANGED << FAILSAFE, cursor, call, trace, ret, locals, rejects >>
    /\ UNCHANGED mouseVars

\* the end of a finally block re-raises the exception in flight
EndFinally ==
    /\ Running({ "endfinally" })
    /\ ops' = << >>
    /\ pc' = "done"
    /\ outcome' = IF pending # "none" THEN pending ELSE "returned"
    /\ pending' = "none"
    /\ UNCHANGED << FAILSAFE, cursor, call, trace, ret, locals, rejects >>
    /\ UNCHANGED mouseVars

\* the call returns to its caller
Return ==
    /\ pc = "running"
    /\ ops = << >>
    /\ pc' = "done"
    /\ outcome' = "returned"
    /\ UNCHANGED << FAILSAFE, cursor, call, ops, trace, ret, locals,
                    pending, rejects >>
    /\ UNCHANGED mouseVars

\* the caller goes on; nothing of the finished call is kept but the globals
Continue ==
    /\ pc = "done"
    /\ pc' = "idle"
    /\ call' = NoCall
    /\ ops' = << >>
    /\ trace' = << >>
    /\ ret' = "None"
    /\ locals' = NoLocals
    /\ pending' = "none"
    /\ outcome' = "none"
    /\ rejects' = 0
    /\ mv' = NoMove
    /\ prev' = IF mv.fn = "none" THEN prev
               ELSE IF /\ mv.fn = "moveRel" /\ ~mv.args.relative
                       /\ outcome = "returned"
               THEN [ fn |-> mv.fn, dx |-> OffsetOf(mv.args.x),
                      dy |-> OffsetOf(mv.args.y), start |-> mv.start ]
               ELSE NoPrev
    /\ UNCHANGED << FAILSAFE, cursor, SystemParameters, MouseSpeedSettings,
                    threads >>

(* ----- the environment --------------------------------------------------- *)
\* the user moves the mouse
MoveCursor ==
    /\ \E p \in Positions \ { cursor } : cursor' = p
    /\ UNCHANGED << FAILSAFE, pc, call, ops, trace, ret, locals,
                    pending, outcome, rejects >>
    /\ UNCHANGED mouseVars

\* the caller sets pydirectinput.FAILSAFE between two calls
SetFailsafe ==
    /\ pc = "idle"
    /\ FAILSAFE' = ~FAILSAFE
    /\ UNCHANGED << cursor, pc, call, ops, trace, ret, locals, pending,
                    outcome, rejects >>
    /\ UNCHANGED mouseVars

Env == MoveCursor \/ SetFailsafe

Steps == FailSafeCheck \/ SendInput \/ Sleep \/ Continue

HoldSteps == Yield \/ BodyReturns \/ BodyRaises \/ RaiseOnFailure \/ EndFinally

(* ----- specifications ---------------------------------------------------- *)
KeyCalls ==
    \/ Call_scancode_keyDown \/ Call_scancode_keyUp
    \/ Call_keyDown \/ Call_keyUp
    \/ Call_unicode_charDown \/ Call_unicode_charUp
    \/ Call_isValidKey

PressCalls ==
    \/ Call_press \/ Call_scancode_press \/ Call_unicode_press
    \/ Call_typewrite

HoldCalls == Call_hold \/ Call_scancode_hold \/ Call_unicode_hold

HotkeyCalls == Call_hotkey \/ Call_scancode_hotkey

NextKeys == KeyCalls \/ Steps \/ Local \/ Return \/ Env

NextPress == PressCalls \/ Steps \/ Return \/ Env

NextHold == HoldCalls \/ Steps \/ Local \/ HoldSteps \/ Env

NextHotkey == HotkeyCalls \/ Steps \/ Return \/ Env

Next ==
    \/ KeyCalls \/ PressCalls \/ HoldCalls \/ HotkeyCalls
    \/ Steps \/ Local \/ Return \/ HoldSteps \/ Env

Spec == Init /\ [][Next]_vars
SpecKeys == Init /\ [][NextKeys]_vars
SpecPress == Init /\ [][NextPress]_vars
SpecHold == Init /\ [][NextHold]_vars
SpecHotkey == Init /\ [][NextHotkey]_vars


(* ========================================================================= *)
(* Mouse calls                                                                *)
(* ========================================================================= *)
MouseArgs(fn, pause) == Args(fn, << >>, FALSE, 0, pause, FALSE, FALSE)

ClickFrame(fn, clicks, button, buttons_swapped) ==
    [ NoMove EXCEPT !.fn = fn, !.start = cursor,
        !.click = [ clicks |-> clicks, button |-> button,
                    buttons_swapped |-> buttons_swapped ] ]

Call_click ==
    /\ pc = "idle"
    /\ \E n \in (-1)..MaxClicks, b \in Buttons, sw \in BOOLEAN, p \in BOOLEAN :
        MouseCall(MouseArgs("click", p), ClickFrame("click", n, b, sw),
                  click(n, b, sw, p))

Call_doubleClick ==
    /\ pc = "idle"
    /\ \E b \in Buttons, sw \in BOOLEAN, p \in BOOLEAN :
        MouseCall(MouseArgs("doubleClick", p),
                  ClickFrame("doubleClick", 2, b, sw), doubleClick(b, sw, p))

Call_tripleClick ==
    /\ pc = "idle"
    /\ \E b \in Buttons, sw \in BOOLEAN, p \in BOOLEAN :
        MouseCall(MouseArgs("tripleClick", p),
                  ClickFrame("tripleClick", 3, b, sw), tripleClick(b, sw, p))

\* raise ValueError(...)
RaiseError ==
    /\ Running({ "raise" })
    /\ Raise(Head(ops).tag)
    /\ UNCHANGED << FAILSAFE, cursor, call, trace, ret, locals, rejects >>
    /\ UNCHANGED mouseVars

ClickCalls == Call_click \/ Call_doubleClick \/ Call_tripleClick

NextClick ==
    ClickCalls \/ RaiseError \/ SendInput \/ Sleep \/ Return \/ Continue \/ Env

SpecClick == Init /\ [][NextClick]_vars

(* ----- moveTo and moveRel -------------------------------------------------- *)
MoveFrame(x, y, duration, relative, app, dma) ==
    [ NoFrame EXCEPT !.x = x, !.y = y, !.duration = duration,
                     !.relative = relative, !.attempt_pixel_perfect = app,
                     !.disable_mouse_acceleration = dma ]

MoveCall(fn, frame) ==
    [ NoMove EXCEPT !.fn = fn, !.start = cursor, !.args = frame, !.f = frame,
                    !.before = SystemParameters ]

\* moveTo(x, y, duration, relative=..., attempt_pixel_perfect=...), with
\* disable_mouse_acceleration given the value of attempt_pixel_perfect, the
\* only case in which it is looked at, and _pause left at True
Call_moveTo ==
    /\ pc = "idle"
    /\ \E x \in XInputs, y \in YInputs, d \in 0..MaxDuration,
          r \in BOOLEAN, app \in BOOLEAN :
        MouseCall(MouseArgs("moveTo", TRUE),
                  MoveCall("moveTo", MoveFrame(x, y, d, r, app, app)),
                  moveTo(TRUE))

\* move(xOffset, yOffset, duration): relative left at False and _pause at True
Call_moveRel ==
    /\ pc = "idle"
    /\ \E x \in Offsets, y \in Offsets, d \in 0..MaxDuration :
        MouseCall(MouseArgs("moveRel", TRUE),
                  MoveCall("moveRel", MoveFrame(x, y, d, FALSE, FALSE, FALSE)),
                  moveRel(FALSE, TRUE))

\* moveRel(xOffset, yOffset, duration, relative=True, ...)
Call_moveRel_relative ==
    /\ pc = "idle"
    /\ \E x \in RelativeOffsets, y \in RelativeOffsets, d \in 0..MaxDuration,
          dma \in BOOLEAN, p \in BOOLEAN :
        MouseCall(MouseArgs("moveRel", p),
                  MoveCall("moveRel", MoveFrame(x, y, d, TRUE, FALSE, dma)),
                  moveRel(TRUE, p))

\* what int((final_time - _time()) / MINIMUM_SLEEP_ACTUAL) can be: the whole
\* duration in the first round, when no sleep has been made since final_time
\* was set; afterwards any number of intervals up to the one read last
TimeLeft(f) ==
    IF f.apply_duration
    THEN { t \in 0..f.timeleft : t = f.timeleft => f.stall < MaxStall }
    ELSE { f.timeleft }

\* the frame once the time left has been read
Timed(f, t) ==
    [ f EXCEPT !.timeleft = t, !.apply_duration = TRUE,
               !.stall = IF f.apply_duration /\ t = f.timeleft THEN @ + 1
                         ELSE 0 ]

\* moveTo, up to the loop
MoveToBegin ==
    /\ Running({ "moveTo" })
    /\ LET f == mv.f
           final == IF f.relative THEN RelativeTarget(cursor, f.x, f.y)
                    ELSE position(cursor, f.x, f.y)
       IN  mv' = [ mv EXCEPT !.f =
                     [ f EXCEPT !.final_x = final[1], !.final_y = final[2],
                                !.current_x = IF f.relative THEN cursor[1] ELSE 0,
                                !.current_y = IF f.relative THEN cursor[2] ELSE 0,
                                !.timeleft = f.duration,
                                !.apply_duration = FALSE, !.stall = 0 ] ]
    /\ ops' = Tail(ops)
    /\ UNCHANGED << FAILSAFE, cursor, pc, call, trace, ret, locals, pending,
                    outcome, rejects, SystemParameters, MouseSpeedSettings,
                    prev, threads >>

\* one round of moveTo's loop
MoveToLoop ==
    /\ Running({ "moveTo_loop" })
    /\ \E t \in TimeLeft(mv.f), n \in 0..1 :
        LET f == mv.f
            time_segments == MoveToSegments(t, f.final_x, f.final_y,
                                            f.current_x, f.current_y)
            keep_looping == ~(time_segments <= 1)
            x == add_one_step(cursor[1], f.final_x, time_segments)
            y == add_one_step(cursor[2], f.final_y, time_segments)
            w == to_windows_coordinates(x, y)
            ev == create_mouse_input(w[1], w[2], 0,
                                     MOUSEEVENTF_MOVE + MOUSEEVENTF_ABSOLUTE)
        IN  /\ mv' = [ mv EXCEPT !.f =
                         [ Timed(f, t) EXCEPT !.current_x = cursor[1],
                                              !.current_y = cursor[2] ] ]
            /\ ops' = IF keep_looping THEN ops ELSE Tail(ops)
            /\ IF x = cursor[1] /\ y = cursor[2]
               THEN /\ n = 1
                    /\ UNCHANGED << cursor, trace, rejects >>
               ELSE /\ n = 0 => rejects < MaxRejects
                    /\ rejects' = IF n = 0 THEN rejects + 1 ELSE rejects
                    /\ trace' = Append(trace,
                                  [ op |-> "send", batch |-> << ev >>, n |-> n,
                                    what |-> "", to |-> << x, y >>,
                                    sp |-> SystemParameters ])
                    /\ cursor' = IF n = 1 THEN Moved(cursor, ev) ELSE cursor
    /\ UNCHANGED << FAILSAFE, pc, call, ret, locals, pending, outcome,
                    SystemParameters, MouseSpeedSettings, prev, threads >>

\* moveTo's after-care: moveRel(final - current, duration=0.0, _pause=False,
\* relative=True, ...) if the cursor is not on the target
MoveToAfterCare ==
    /\ Running({ "moveTo_aftercare" })
    /\ LET f == mv.f
       IN  IF f.attempt_pixel_perfect
              /\ ~(cursor[1] = f.final_x /\ cursor[2] = f.final_y)
           THEN /\ ops' = moveRel(TRUE, FALSE) \o Tail(ops)
                /\ mv' = [ mv EXCEPT !.f =
                             MoveFrame(Some(f.final_x - cursor[1]),
                                       Some(f.final_y - cursor[2]), 0, TRUE,
                                       FALSE, f.disable_mouse_acceleration) ]
           ELSE /\ ops' = Tail(ops)
                /\ mv' = mv
    /\ UNCHANGED << FAILSAFE, cursor, pc, call, trace, ret, locals, pending,
                    outcome, rejects, SystemParameters, MouseSpeedSettings,
                    prev, threads >>

\* moveRel, up to the call of moveTo or up to the loop
MoveRelBegin ==
    /\ Running({ "moveRel" })
    /\ LET f == mv.f
           xOffset == IF f.x = None THEN 0 ELSE f.x[1]
           yOffset == IF f.y = None THEN 0 ELSE f.y[1]
       IN  mv' = [ mv EXCEPT !.f =
                     IF ~f.relative
                     THEN MoveFrame(Some(xOffset), Some(yOffset), f.duration,
                                    TRUE, FALSE, FALSE)
                     ELSE [ f EXCEPT !.x = Some(xOffset), !.y = Some(yOffset),
                                     !.current_x = 0, !.current_y = 0,
                                     !.timeleft = f.duration,
                                     !.apply_duration = FALSE,
                                     !.stall = 0 ] ]
    /\ ops' = Tail(ops)
    /\ UNCHANGED << FAILSAFE, cursor, pc, call, trace, ret, locals, pending,
                    outcome, rejects, SystemParameters, MouseSpeedSettings,
                    prev, threads >>

\* one round of moveRel's loop; the injection, inside
\* `with _without_mouse_acceleration():` if asked for, accepts the event,
\* rejects it, or is interrupted by an exception
MoveRelLoop ==
    /\ Running({ "moveRel_loop" })
    /\ \E t \in TimeLeft(mv.f), r \in { "accepted", "rejected", "raised" } :
        LET f == mv.f
            time_segments == MoveRelSegments(t, f.x[1], f.y[1],
                                             f.current_x, f.current_y)
            keep_looping == ~(time_segments <= 1)
            x == add_one_step(f.current_x, f.x[1], time_segments) - f.current_x
            y == add_one_step(f.current_y, f.y[1], time_segments) - f.current_y
            ev == create_mouse_input(x, y, 0, MOUSEEVENTF_MOVE)
            in == IF f.disable_mouse_acceleration
                  THEN without_mouse_acceleration_enter(SystemParameters,
                                                        MouseSpeedSettings)
                  ELSE [ cls |-> MouseSpeedSettings, sp |-> SystemParameters,
                         th1 |-> 0, th2 |-> 0 ]
            out == IF f.disable_mouse_acceleration
                   THEN without_mouse_acceleration_exit(in.sp, in.cls,
                                                        in.th1, in.th2)
                   ELSE [ cls |-> in.cls, sp |-> in.sp ]
        IN  IF x = 0 /\ y = 0
            THEN /\ r = "accepted"
                 /\ mv' = [ mv EXCEPT !.f = Timed(f, t) ]
                 /\ ops' = IF keep_looping THEN ops ELSE Tail(ops)
                 /\ UNCHANGED << cursor, trace, rejects, pc, pending, outcome,
                                 SystemParameters, MouseSpeedSettings >>
            ELSE /\ r = "rejected" => rejects < MaxRejects
                 /\ rejects' = IF r = "rejected" THEN rejects + 1 ELSE rejects
                 /\ mv' = [ mv EXCEPT !.f =
                              [ Timed(f, t) EXCEPT !.current_x = @ + x,
                                                   !.current_y = @ + y ] ]
                 /\ trace' = Append(trace,
                               [ op |-> "send", batch |-> << ev >>,
                                 n |-> IF r = "accepted" THEN 1 ELSE 0,
                                 what |-> r, to |-> << x, y >>,
                                 sp |-> in.sp ])
                 /\ cursor' = IF r = "accepted" THEN Moved(cursor, ev)
                              ELSE cursor
                 /\ SystemParameters' = out.sp
                 /\ MouseSpeedSettings' = out.cls
                 /\ IF r = "raised"
                    THEN Raise("KeyboardInterrupt")
                    ELSE /\ ops' = IF keep_looping THEN ops ELSE Tail(ops)
                         /\ UNCHANGED << pc, pending, outcome >>
    /\ UNCHANGED << FAILSAFE, call, ret, locals, prev, threads >>

(* ----- the manual store ---------------------------------------------------- *)
Call_store_mouse_acceleration_settings ==
    /\ pc = "idle"
    /\ call' = MouseArgs("store_mouse_acceleration_settings", FALSE)
    /\ mv' = MoveCall("store_mouse_acceleration_settings", NoFrame)
    /\ MouseSpeedSettings'
         = store_mouse_acceleration_settings(SystemParameters,
                                             MouseSpeedSettings)
    /\ pc' = "done"
    /\ outcome' = "returned"
    /\ UNCHANGED << FAILSAFE, cursor, ops, trace, ret, locals, pending,
                    rejects, SystemParameters, prev, threads >>

Call_restore_mouse_acceleration_settings ==
    /\ pc = "idle"
    /\ call' = MouseArgs("restore_mouse_acceleration_settings", FALSE)
    /\ mv' = MoveCall("restore_mouse_acceleration_settings", NoFrame)
    /\ LET r == restore_mouse_acceleration_settings(SystemParameters,
                                                    MouseSpeedSettings)
       IN  /\ SystemParameters' = r.sp
           /\ outcome' = IF r.raised THEN "ValueError" ELSE "returned"
    /\ pc' = "done"
    /\ UNCHANGED << FAILSAFE, cursor, ops, trace, ret, locals, pending,
                    rejects, MouseSpeedSettings, prev, threads >>

(* ----- the environment of the mouse functions ------------------------------ *)
\* the user moves the mouse between two calls
UserMovesMouse ==
    /\ pc = "idle"
    /\ \E p \in Screen \ { cursor } : cursor' = p
    /\ prev' = NoPrev
    /\ UNCHANGED << FAILSAFE, pc, call, ops, trace, ret, locals, pending,
                    outcome, rejects, SystemParameters, MouseSpeedSettings,
                    mv, threads >>

\* the user changes the pointer settings between two calls
ChangeSettings ==
    /\ pc = "idle" /\ threads = << >>
    /\ \E s \in Settings \ { SystemParameters } : SystemParameters' = s
    /\ UNCHANGED << FAILSAFE, cursor, pc, call, ops, trace, ret, locals,
                    pending, outcome, rejects, MouseSpeedSettings, mv, prev,
                    threads >>

NextMoveTo ==
    \/ Call_moveTo \/ Call_moveRel
    \/ MoveToBegin \/ MoveToLoop \/ MoveToAfterCare
    \/ MoveRelBegin \/ MoveRelLoop
    \/ FailSafeCheck \/ Sleep \/ Return \/ Continue
    \/ UserMovesMouse \/ SetFailsafe

SpecMoveTo == Init /\ [][NextMoveTo]_vars

NextMoveRel ==
    \/ Call_moveRel_relative
    \/ Call_store_mouse_acceleration_settings
    \/ Call_restore_mouse_acceleration_settings
    \/ MoveRelBegin \/ MoveRelLoop
    \/ Sleep \/ Return \/ Continue
    \/ UserMovesMouse \/ ChangeSettings

SpecMoveRel == Init /\ [][NextMoveRel]_vars

(* ----- threads inside _without_mouse_acceleration -------------------------- *)
\* the locals of the generator: th1, th2, precision, speed (None until read)
NewThread ==
    [ pc |-> "get_mouse_parameters", th1 |-> 0, th2 |-> 0,
      precision |-> None, speed |-> None ]

ThreadAt(i, at) == i \in 1..Len(threads) /\ threads[i].pc = at

\* the frame conditions of a step of thread i
ThreadStep(i, t) ==
    /\ threads' = [ threads EXCEPT ![i] = t ]
    /\ UNCHANGED << FAILSAFE, cursor, pc, call, ops, trace, ret, locals,
                    pending, outcome, rejects, prev >>

\* a thread calls _without_mouse_acceleration(): `with` in moveRel's loop
ThreadStart ==
    /\ pc = "idle" /\ Len(threads) < MaxThreads
    /\ threads' = Append(threads, NewThread)
    /\ mv' = IF threads = << >>
             THEN MoveCall("_without_mouse_acceleration", NoFrame)
             ELSE mv
    /\ UNCHANGED << FAILSAFE, cursor, pc, call, ops, trace, ret, locals,
                    pending, outcome, rejects, SystemParameters,
                    MouseSpeedSettings, prev >>

\* th1, th2, precision = _get_mouse_parameters()
ThreadGetMouseParameters ==
    \E i \in 1..Len(threads) :
        /\ ThreadAt(i, "get_mouse_parameters")
        /\ LET p == get_mouse_parameters(SystemParameters)
           IN  ThreadStep(i, [ threads[i] EXCEPT !.pc = "get_mouse_speed",
                                                !.th1 = p[1], !.th2 = p[2],
                                                !.precision = Some(p[3]) ])
        /\ UNCHANGED << SystemParameters, MouseSpeedSettings, mv >>

\* speed = _get_mouse_speed()
ThreadGetMouseSpeed ==
    \E i \in 1..Len(threads) :
        /\ ThreadAt(i, "get_mouse_speed")
        /\ ThreadStep(i, [ threads[i] EXCEPT
                             !.pc = "set_ctxtmgr_mouse_settings",
                             !.speed = Some(get_mouse_speed(SystemParameters)) ])
        /\ UNCHANGED << SystemParameters, MouseSpeedSettings, mv >>

\* __MouseSpeedSettings.set_ctxtmgr_mouse_settings(precision, speed), under
\* the lock
ThreadSetCtxtmgr ==
    \E i \in 1..Len(threads) :
        /\ ThreadAt(i, "set_ctxtmgr_mouse_settings")
        /\ MouseSpeedSettings'
             = set_ctxtmgr_mouse_settings(MouseSpeedSettings,
                                          threads[i].precision[1],
                                          threads[i].speed[1])
        /\ ThreadStep(i, [ threads[i] EXCEPT !.pc = "set_mouse_parameters" ])
        /\ UNCHANGED << SystemParameters, mv >>

\* if precision != 0: _set_mouse_parameters(th1, th2, 0)
ThreadDisable ==
    \E i \in 1..Len(threads) :
        /\ ThreadAt(i, "set_mouse_parameters")
        /\ SystemParameters'
             = IF threads[i].precision[1] # 0
               THEN set_mouse_parameters(SystemParameters, threads[i].th1,
                                         threads[i].th2, 0)
               ELSE SystemParameters
        /\ ThreadStep(i, [ threads[i] EXCEPT !.pc = "yield" ])
        /\ UNCHANGED << MouseSpeedSettings, mv >>

\* yield: the body of the with statement, _send_input(input_struct)
ThreadYield ==
    \E i \in 1..Len(threads) :
        /\ ThreadAt(i, "yield")
        /\ ThreadStep(i, [ threads[i] EXCEPT
                             !.pc = "get_ctxtmgr_mouse_settings" ])
        /\ UNCHANGED << SystemParameters, MouseSpeedSettings, mv >>

\* finally: precision, speed = get_ctxtmgr_mouse_settings(), under the lock
ThreadGetCtxtmgr ==
    \E i \in 1..Len(threads) :
        /\ ThreadAt(i, "get_ctxtmgr_mouse_settings")
        /\ LET g == get_ctxtmgr_mouse_settings(MouseSpeedSettings)
           IN  /\ MouseSpeedSettings' = g.cls
               /\ ThreadStep(i, [ threads[i] EXCEPT
                                    !.pc = "restore_mouse_parameters",
                                    !.precision = g.epp, !.speed = g.speed ])
        /\ UNCHANGED << SystemParameters, mv >>

\* if precision is not None: _set_mouse_parameters(th1, th2, precision)
ThreadRestoreParameters ==
    \E i \in 1..Len(threads) :
        /\ ThreadAt(i, "restore_mouse_parameters")
        /\ SystemParameters'
             = IF threads[i].precision # None
               THEN set_mouse_parameters(SystemParameters, threads[i].th1,
                                         threads[i].th2,
                                         threads[i].precision[1])
               ELSE SystemParameters
        /\ ThreadStep(i, [ threads[i] EXCEPT !.pc = "restore_mouse_speed" ])
        /\ UNCHANGED << MouseSpeedSettings, mv >>

\* if speed is not None: _set_mouse_speed(speed)
ThreadRestoreSpeed ==
    \E i \in 1..Len(threads) :
        /\ ThreadAt(i, "restore_mouse_speed")
        /\ SystemParameters'
             = IF threads[i].speed # None
               THEN set_mouse_speed(SystemParameters, threads[i].speed[1])
               ELSE SystemParameters
        /\ ThreadStep(i, [ threads[i] EXCEPT !.pc = "done" ])
        /\ UNCHANGED << MouseSpeedSettings, mv >>

AllThreadsDone ==
    threads # << >> /\ \A i \in 1..Len(threads) : threads[i].pc = "done"

\* the threads have been joined
ThreadsJoin ==
    /\ AllThreadsDone
    /\ threads' = << >>
    /\ mv' = NoMove
    /\ UNCHANGED << FAILSAFE, cursor, pc, call, ops, trace, ret, locals,
                    pending, outcome, rejects, SystemParameters,
                    MouseSpeedSettings, prev >>

NextThreads ==
    \/ ThreadStart
    \/ ThreadGetMouseParameters \/ ThreadGetMouseSpeed \/ ThreadSetCtxtmgr
    \/ ThreadDisable \/ ThreadYield
    \/ ThreadGetCtxtmgr \/ ThreadRestoreParameters \/ ThreadRestoreSpeed
    \/ ThreadsJoin \/ ChangeSettings

SpecThreads == Init /\ [][NextThreads]_vars

(* ----- the coordinate conversion, called on its own ------------------------ *)
\* display sizes: every size up to MaxDisplay, common resolutions, and the
\* largest sizes the normalised range can tell apart
DisplayTotals ==
    (1..MaxDisplay)
    \cup { 640, 768, 1080, 1366, 1920, 2560, 3840, 32768, 65535, 65536 }

\* the pixels of a display that are converted
PixelsOf(display_total) ==
    { p \in 0..(display_total - 1) :
        \/ display_total <= MaxDisplay
        \/ p <= MaxPixel
        \/ p >= display_total - 1 - MaxPixel
        \/ Abs(p - display_total \div 2) <= MaxPixel }

\* _calc_normalized_screen_coord(pixel_coord, display_total)
Call_calc_normalized_screen_coord ==
    /\ pc = "idle"
    /\ \E display_total \in DisplayTotals :
         \E pixel_coord \in PixelsOf(display_total) :
            /\ call' = Args("_calc_normalized_screen_coord",
                            << pixel_coord, display_total >>,
                            FALSE, 0, FALSE, FALSE, FALSE)
            /\ ret' = calc_normalized_screen_coord(pixel_coord, display_total)
    /\ pc' = "done"
    /\ outcome' = "returned"
    /\ UNCHANGED << FAILSAFE, cursor, ops, trace, locals, pending, rejects >>
    /\ UNCHANGED mouseVars

\* _to_windows_coordinates(x, y), virtual=False
Call_to_windows_coordinates ==
    /\ pc = "idle"
    /\ \E x \in 0..(size[1] - 1), y \in 0..(size[2] - 1) :
        /\ call' = Args("_to_windows_coordinates", << x, y >>,
                        FALSE, 0, FALSE, FALSE, FALSE)
        /\ ret' = to_windows_coordinates(x, y)
    /\ pc' = "done"
    /\ outcome' = "returned"
    /\ UNCHANGED << FAILSAFE, cursor, ops, trace, locals, pending, rejects >>
    /\ UNCHANGED mouseVars

NextCoord ==
    \/ Call_calc_normalized_screen_coord
    \/ Call_to_windows_coordinates
    \/ Continue

SpecCoord == Init /\ [][NextCoord]_vars

(* ----- the step interpolation, called on its own and in a disturbed move --- *)
\* _add_one_step(current, target, remaining_steps)
Call_add_one_step ==
    /\ pc = "idle"
    /\ \E current \in (-MaxCoord)..MaxCoord, target \in (-MaxCoord)..MaxCoord,
          remaining_steps \in (-1)..MaxSteps :
        /\ call' = Args("_add_one_step",
                        << current, target, remaining_steps >>,
                        FALSE, 0, FALSE, FALSE, FALSE)
        /\ ret' = add_one_step(current, target, remaining_steps)
    /\ pc' = "done"
    /\ outcome' = "returned"
    /\ UNCHANGED << FAILSAFE, cursor, ops, trace, locals, pending, rejects >>
    /\ UNCHANGED mouseVars

\* moveTo(x, y, duration): a point of the screen, the keyword arguments left
\* at their defaults
Call_moveTo_duration ==
    /\ pc = "idle"
    /\ \E x \in 0..(ScreenWidth - 1), y \in 0..(ScreenHeight - 1),
          d \in 0..MaxDuration :
        MouseCall(MouseArgs("moveTo", TRUE),
                  MoveCall("moveTo",
                           MoveFrame(Some(x), Some(y), d, FALSE, FALSE, FALSE)),
                  moveTo(TRUE))

\* the user moves the mouse while moveTo sleeps between two rounds of its loop
Disturb ==
    /\ Running({ "moveTo_loop" })
    /\ mv.f.apply_duration
    /\ Cardinality({ i \in 1..Len(trace) : trace[i].op = "moved" })
         < MaxDisturbs
    /\ \E p \in Screen \ { cursor } :
        /\ cursor' = p
        /\ trace' = Append(trace,
                      [ op |-> "moved", batch |-> << >>, n |-> 0, what |-> "",
                        to |-> p, sp |-> SystemParameters ])
    /\ UNCHANGED << FAILSAFE, pc, call, ops, ret, locals, pending, outcome,
                    rejects >>
    /\ UNCHANGED mouseVars

NextStep ==
    \/ Call_add_one_step
    \/ Call_moveTo_duration
    \/ MoveToBegin \/ MoveToLoop \/ MoveToAfterCare
    \/ Disturb
    \/ Sleep \/ Return \/ Continue

SpecStep == Init /\ [][NextStep]_vars
(* ----- reading a trace ---------------------------------------------------- *)
IsSend(e) == e.op = "send"
IsPause(e) == e.op = "sleep" /\ e.what = "PAUSE"

SendsOf(tr) == SelectSeq(tr, IsSend)

\* the scancode / code unit of a batch's last event: the key's own event
KeyCode(e) == e.batch[Len(e.batch)].wScan

\* the KEYUP bit of an event's flags
IsKeyUp(ev) == (ev.dwFlags \div KEYEVENTF_KEYUP) % 2 = 1

\* position of the `yield` in the trace of a hold call, 0 before it
YieldAt(tr) ==
    IF \E i \in 1..Len(tr) : tr[i].op = "yield"
    THEN CHOOSE i \in 1..Len(tr) : tr[i].op = "yield"
    ELSE 0

\* what the inputs of the list-taking functions stand for: the scancode or
\* code unit of the key's own event, 0 for a name without mapping
CodeOfInput(fn, key) ==
    CASE fn \in { "press", "hold", "typewrite" } ->
             (CASE key = <<"A">> -> 30
                [] key = <<"a">> -> 30
                [] key = <<"D", "e", "l">> -> 57427
                [] OTHER -> 0)
      [] fn = "hotkey" ->
             (CASE key = <<"A">> -> 30
                [] key = <<"d", "e", "l">> -> 57427
                [] OTHER -> 0)
      [] fn \in { "scancode_press", "scancode_hold", "scancode_hotkey" } ->
             (CASE key = <<65566>> -> 30
                [] key = <<57427>> -> 57427
                [] OTHER -> 0)
      [] fn \in { "unicode_press", "unicode_hold" } ->
             (CASE key = <<128512>> -> 56832
                [] key = <<8364, 97>> -> 97
                [] OTHER -> 0)
      [] OTHER -> 0

\* the codes of the keys of the call that have a mapping, in argument order
RECURSIVE CodesOfInputs(_, _)
CodesOfInputs(fn, keys) ==
    IF keys = << >> THEN << >>
    ELSE (IF CodeOfInput(fn, Head(keys)) = 0 THEN << >>
          ELSE << CodeOfInput(fn, Head(keys)) >>)
         \o CodesOfInputs(fn, Tail(keys))

CodesOfSends(s) == [ i \in 1..Len(s) |-> KeyCode(s[i]) ]

AllDown(s) == \A i \in 1..Len(s) : \A j \in 1..Len(s[i].batch) : ~IsKeyUp(s[i].batch[j])
AllUp(s) == \A i \in 1..Len(s) : \A j \in 1..Len(s[i].batch) : IsKeyUp(s[i].batch[j])

\* the functions the source decorates with @_genericPyDirectInputChecks
DecoratedFunctions ==
    { "scancode_keyDown", "scancode_keyUp", "scancode_press", "scancode_hold",
      "scancode_hotkey", "keyDown", "press", "hold", "typewrite", "hotkey",
      "unicode_charDown", "unicode_charUp", "unicode_press", "unicode_hold" }

(* ----- C1 ------------------------------------------------------------------ *)
\* C1: a decorated function called while FAILSAFE is true and the cursor is on
\* a fail-safe point raises FailSafeException at once, with no SendInput call
\* and no sleep made; and a call never ends in FailSafeException while
\* FAILSAFE is false.
C1_FailSafe ==
    [][ /\ ( /\ pc = "idle" /\ pc' # "idle"
             /\ FAILSAFE /\ cursor \in FAILSAFE_POINTS
             /\ call'.fn \in DecoratedFunctions )
          => ( pc' = "done" /\ outcome' = "FailSafeException" /\ trace' = << >> )
        /\ outcome' = "FailSafeException" => FAILSAFE' ]_vars

C1_Witness ==
    /\ pc = "done" /\ outcome = "FailSafeException" /\ trace = << >>
    /\ call.fn = "press" /\ call.pause /\ Len(call.keys) = 2
    /\ cursor \in FAILSAFE_POINTS

(* ----- C2 ------------------------------------------------------------------ *)
\* C2: with the fail-safe disabled, a finished hold / scancode_hold /
\* unicode_hold has pressed its keys in the given order before the with-body
\* and released every one of them in the reverse order after it, whether the
\* body returned or raised.
C2_HoldLifo ==
    ( /\ pc = "done" /\ ~FAILSAFE
      /\ call.fn \in { "hold", "scancode_hold", "unicode_hold" } )
    => LET y == YieldAt(trace)
           downs == SendsOf(SubSeq(trace, 1, y))
           ups == SendsOf(SubSeq(trace, y + 1, Len(trace)))
       IN  /\ y > 0
           /\ AllDown(downs) /\ AllUp(ups)
           /\ CodesOfSends(downs) = CodesOfInputs(call.fn, call.keys)
           /\ CodesOfSends(ups) = Reverse(CodesOfInputs(call.fn, call.keys))

C2_Witness ==
    /\ pc = "done" /\ ~FAILSAFE /\ outcome = "BodyException"
    /\ call.fn = "hold" /\ call.keys = << <<"A">>, <<"D", "e", "l">> >>
    /\ CodesOfSends(SendsOf(trace)) = << 30, 57427, 57427, 30 >>


(* ----- C3 ------------------------------------------------------------------ *)
\* position of the `wait` sleep in the trace of a hotkey call, 0 before it
WaitAt(tr) ==
    IF \E i \in 1..Len(tr) : tr[i].op = "sleep" /\ tr[i].what = "wait"
    THEN CHOOSE i \in 1..Len(tr) : tr[i].op = "sleep" /\ tr[i].what = "wait"
    ELSE 0

\* C3: a hotkey / scancode_hotkey call that returned has injected the
\* key-downs of its keys in argument order, then slept `wait` once, then
\* injected the key-ups in the reverse order: no key-up precedes the `wait`
\* sleep, no key-down follows it, and every key pressed is released.
C3_HotkeyOrder ==
    ( /\ pc = "done" /\ outcome = "returned"
      /\ call.fn \in { "hotkey", "scancode_hotkey" } )
    => LET w == WaitAt(trace)
           downs == SendsOf(SubSeq(trace, 1, w))
           ups == SendsOf(SubSeq(trace, w + 1, Len(trace)))
       IN  /\ w > 0
           /\ \A i \in 1..Len(trace) :
                (trace[i].op = "sleep" /\ trace[i].what = "wait") => i = w
           /\ AllDown(downs) /\ AllUp(ups)
           /\ CodesOfSends(downs) = CodesOfInputs(call.fn, call.keys)
           /\ CodesOfSends(ups) = Reverse(CodesOfInputs(call.fn, call.keys))

C3_Witness ==
    /\ pc = "done" /\ outcome = "returned" /\ call.fn = "hotkey"
    /\ call.keys = << <<"A">>, <<"d", "e", "l">> >>
    /\ CodesOfSends(SendsOf(trace)) = << 30, 57427, 57427, 30 >>
    /\ WaitAt(trace) > 0
    /\ Len(SendsOf(SubSeq(trace, 1, WaitAt(trace)))) = 2

(* ----- C4 ------------------------------------------------------------------ *)
RECURSIVE Repeat(_, _)
Repeat(s, n) == IF n = 0 THEN << >> ELSE s \o Repeat(s, n - 1)

\* one complete press per code: its key-down, then its key-up
DownUp(codes) == Flatten([ i \in 1..Len(codes) |-> << codes[i], codes[i] >> ])

AcceptedInFull(e) == e.n = Len(e.batch)

C5_IntervalIgnored ==
    ( /\ call.fn \in { "press", "scancode_press", "unicode_press" }
      /\ Len(call.keys) = 1 )
    => \A i \in 1..Len(trace) :
         ~(trace[i].op = "sleep" /\ trace[i].what = "interval")

(* ----- C6 ------------------------------------------------------------------ *)
\* C6: in hold the PAUSE sleep happens at most once per call and never in
\* between: no PAUSE sleep lies between the key-down events of two held keys,
\* nor between the key-up events of two released keys.
C6_HoldPauseOnce ==
    ( call.fn = "hold" )
    => /\ Len(SelectSeq(trace, IsPause)) <= 1
       /\ \A i, j, k \in 1..Len(trace) :
            ( /\ i < j /\ j < k
              /\ IsSend(trace[i]) /\ IsPause(trace[j]) /\ IsSend(trace[k]) )
            => \E y \in (i + 1)..(k - 1) : trace[y].op = "yield"

(* ----- C7 ------------------------------------------------------------------ *)
\* C7: a finished keyDown / keyUp call for a key with a mapping has slept
\* PAUSE exactly once, after its event was injected, when _pause is true, and
\* not at all when _pause is false.
C7_OnePause ==
    ( /\ pc = "done" /\ outcome = "returned"
      /\ call.fn \in { "keyDown", "keyUp" }
      /\ call.keys[1] \in KeyNames )
    => LET pauses == { i \in 1..Len(trace) : IsPause(trace[i]) }
           sends == { i \in 1..Len(trace) : IsSend(trace[i]) }
       IN  /\ Cardinality(pauses) = IF call.pause THEN 1 ELSE 0
           /\ \A i \in pauses : \A j \in sends : j < i

(* ----- C8 ------------------------------------------------------------------ *)
WScans(batch) == [ i \in 1..Len(batch) |-> batch[i].wScan ]

\* the scancodes a table value stands for: Shift (0x2A = 42) before every
\* value that carries the shift offset 0x10000, if auto_shift; the value
\* without the offset otherwise
ExpectedScans(v, auto_shift) ==
    Flatten([ i \in 1..Len(v) |->
        IF auto_shift /\ (v[i] \div 65536) % 2 = 1
        THEN << 42, v[i] % 65536 >>
        ELSE << v[i] % 65536 >> ])

\* the table value a direct key call is about
ValueOfCall ==
    IF call.fn \in { "keyDown", "keyUp" }
    THEN KEYBOARD_MAPPING[call.keys[1]]
    ELSE call.keys[1]

IsDirectKeyCall ==
    \/ call.fn \in { "scancode_keyDown", "scancode_keyUp" }
    \/ call.fn \in { "keyDown", "keyUp" } /\ call.keys[1] \in KeyNames

\* the events of the trace with scancode Shift and the given KEYUP bit
ShiftEvents(tr, up) ==
    Len(SelectSeq(Flatten([ i \in 1..Len(SendsOf(tr)) |-> SendsOf(tr)[i].batch ]),
                  LAMBDA ev : ev.wScan = 42 /\ IsKeyUp(ev) = up))

\* C8: the batch of a key-down / key-up call holds, for every scancode of the
\* table value, a Shift event immediately before the key's own event when
\* auto_shift is true and the value carries the shift offset, and the base
\* scancode alone otherwise; the Shift event has the direction of the key's
\* event; and a press that returned has injected as many Shift-down as
\* Shift-up events.
C8_AutoShift ==
    /\ IsDirectKeyCall =>
         \A i \in 1..Len(trace) :
           IsSend(trace[i]) =>
             /\ WScans(trace[i].batch) = ExpectedScans(ValueOfCall, call.auto_shift)
             /\ \A j \in 1..Len(trace[i].batch) :
                  IsKeyUp(trace[i].batch[j])
                    = (call.fn \in { "keyUp", "scancode_keyUp" })
    /\ ( /\ pc = "done" /\ outcome = "returned"
         /\ call.fn \in { "press", "scancode_press" } )
       => ShiftEvents(trace, FALSE) = ShiftEvents(trace, TRUE)

C8_Witness ==
    /\ pc = "done" /\ outcome = "returned"
    /\ call.fn = "keyDown" /\ call.keys = << <<"A">> >> /\ call.auto_shift
    /\ Len(trace) > 0 /\ IsSend(trace[1])
    /\ WScans(trace[1].batch) = << 42, 30 >>

(* ----- C9 ------------------------------------------------------------------ *)
\* the events a table value stands for, by arithmetic on the value:
\* SCANCODE = 8 always, EXTENDEDKEY = 1 from 0xE000 = 57344 on, KEYUP = 2
ExpectedEvents(v, auto_shift, up) ==
    Flatten([ i \in 1..Len(v) |->
        (IF auto_shift /\ (v[i] \div 65536) % 2 = 1
         THEN << [ wVk |-> 0, wScan |-> 42,
                   dwFlags |-> 8 + (IF up THEN 2 ELSE 0) ] >>
         ELSE << >>)
        \o << [ wVk |-> 0, wScan |-> v[i] % 65536,
                dwFlags |-> 8 + (IF v[i] % 65536 >= 57344 THEN 1 ELSE 0)
                              + (IF up THEN 2 ELSE 0) ] >> ])

IsSendOp(o) == o.k = "send"

\* the batch the key-down call of the same value and auto_shift submits
BatchOfKeyDown(v, auto_shift) ==
    SelectSeq(scancode_keyDown(v, FALSE, auto_shift), IsSendOp)[1].batch

\* C9: every event scancode_keyDown / scancode_keyUp build for a table value v
\* has wScan = v mod 0x10000, the SCANCODE flag, the EXTENDEDKEY flag exactly
\* when v mod 0x10000 >= 0xE000, and the KEYUP flag exactly in scancode_keyUp;
\* the key-up batch is the key-down batch of the same value with KEYUP added.
C9_ExtendedKey ==
    ( call.fn \in { "scancode_keyDown", "scancode_keyUp" } )
    => \A i \in 1..Len(trace) :
         IsSend(trace[i]) =>
           LET b == trace[i].batch
               up == call.fn = "scancode_keyUp"
               down == BatchOfKeyDown(call.keys[1], call.auto_shift)
           IN  /\ b = ExpectedEvents(call.keys[1], call.auto_shift, up)
               /\ up => /\ Len(down) = Len(b)
                        /\ \A j \in 1..Len(b) :
                             /\ b[j].wScan = down[j].wScan
                             /\ b[j].wVk = down[j].wVk
                             /\ b[j].dwFlags = down[j].dwFlags + 2

C9_Witness ==
    /\ pc = "done" /\ outcome = "returned"
    /\ call.fn = "scancode_keyUp" /\ call.keys = << << 57427 >> >>
    /\ Len(trace) > 0 /\ IsSend(trace[1])
    /\ trace[1].batch = << [ wVk |-> 0, wScan |-> 57427, dwFlags |-> 11 ] >>

(* ----- C10 ----------------------------------------------------------------- *)
\* the UTF-16 code units of the characters the unicode calls are made with
UnitsOfInput(char) ==
    CASE char = << 128512 >> -> << 55357, 56832 >>
      [] char = << 8364, 97 >> -> << 8364, 97 >>
      [] OTHER -> << >>

\* C10: a finished scancode_keyDown, scancode_keyUp, unicode_charDown or
\* unicode_charUp call has made exactly one SendInput call, with one event
\* per scancode or UTF-16 code unit plus one per auto-shifted scancode, in
\* sequence order; it returned True exactly when SendInput accepted as many
\* events as were submitted and False otherwise; and such a call ends in no
\* exception but the fail-safe one.
C10_RejectionAsBoolean ==
    ( /\ pc = "done"
      /\ call.fn \in { "scancode_keyDown", "scancode_keyUp",
                       "unicode_charDown", "unicode_charUp" } )
    => /\ outcome \in { "returned", "FailSafeException" }
       /\ outcome = "returned" =>
            LET sends == SendsOf(trace)
            IN  /\ Len(sends) = 1
                /\ WScans(sends[1].batch) =
                     IF call.fn \in { "scancode_keyDown", "scancode_keyUp" }
                     THEN ExpectedScans(call.keys[1], call.auto_shift)
                     ELSE UnitsOfInput(call.keys[1])
                /\ ret \in { "True", "False" }
                /\ ret = "True" <=> sends[1].n = Len(sends[1].batch)

C10_Witness ==
    /\ pc = "done" /\ outcome = "returned" /\ ret = "False"
    /\ call.fn = "unicode_charDown" /\ call.keys = << << 128512 >> >>
    /\ Len(SendsOf(trace)) = 1
    /\ SendsOf(trace)[1].n = 1 /\ Len(SendsOf(trace)[1].batch) = 2

(* ----- C11 ----------------------------------------------------------------- *)
\* the key names of the table, read off its entries
InTable(key) == \E e \in US_QWERTY_MAPPING : e[1] = key

\* C11: isValidKey(key) returns True exactly when key is a key of the
\* mapping; and a keyDown / keyUp call for a key that is not has injected
\* nothing and, once it returned, has returned False.
C11_IsValidKey ==
    /\ ( pc = "done" /\ call.fn = "isValidKey" )
       => /\ outcome = "returned" /\ trace = << >>
          /\ ret = "True" <=> InTable(call.keys[1])
    /\ ( /\ call.fn \in { "keyDown", "keyUp" }
         /\ ~isValidKey(call.keys[1]) )
       => /\ SendsOf(trace) = << >>
          /\ ( pc = "done" /\ outcome = "returned" ) => ret = "False"

C11_Witness ==
    /\ pc = "done" /\ outcome = "returned" /\ call.fn = "keyUp"
    /\ call.keys = << << "D", "e", "l" >> >> /\ ret = "False"
    /\ ~isValidKey(call.keys[1]) /\ isValidKey(<< "d", "e", "l" >>)

(* ----- C20 ----------------------------------------------------------------- *)
IsUpper(c) == \E i \in 1..Len(UpperChars) : UpperChars[i] = c

\* the name the claim says is looked up
LookedUp(key, auto_shift) ==
    IF Len(key) > 1 \/ ~auto_shift THEN lower(key) ELSE key

\* the batch (none if the name has no mapping) of a key-down or key-up of
\* the looked-up name
NameBatches(key, auto_shift, up) ==
    IF InTable(LookedUp(key, auto_shift))
    THEN << ExpectedEvents(KEYBOARD_MAPPING[LookedUp(key, auto_shift)],
                           auto_shift, up) >>
    ELSE << >>

PressBatches(keys, auto_shift) ==
    Flatten([ i \in 1..Len(keys) |->
                NameBatches(keys[i], auto_shift, FALSE)
                \o NameBatches(keys[i], auto_shift, TRUE) ])

HoldBatches(keys, auto_shift) ==
    Flatten([ i \in 1..Len(keys) |-> NameBatches(keys[i], auto_shift, FALSE) ])
    \o Flatten([ i \in 1..Len(keys) |->
                   NameBatches(keys[Len(keys) + 1 - i], auto_shift, TRUE) ])

\* the characters of a message as one-character key names
CharsOf(message) == [ i \in 1..Len(message) |-> << message[i] >> ]

BatchesOfTrace == [ i \in 1..Len(SendsOf(trace)) |-> SendsOf(trace)[i].batch ]

IsPrefix(s, t) == Len(s) <= Len(t) /\ s = SubSeq(t, 1, Len(s))

\* C20: the events press, hold and typewrite inject are those of the key
\* names looked up in lower case when the name is longer than one character
\* or auto_shift is off, and unchanged otherwise; with auto_shift off
\* typewrite(m) injects the events of typewrite(lowercase(m)) and no Shift
\* event; with auto_shift on every upper-case letter of m is injected as
\* Shift plus the letter's key, pressed and released.
C20_Normalisation ==
    /\ call.fn = "press" =>
         LET e == Repeat(PressBatches(call.keys, call.auto_shift), call.presses)
         IN  /\ IsPrefix(BatchesOfTrace, e)
             /\ ( pc = "done" /\ ~FAILSAFE ) => BatchesOfTrace = e
    /\ ( call.fn = "hold" /\ ~FAILSAFE ) =>
         LET e == HoldBatches(call.keys, call.auto_shift)
         IN  /\ IsPrefix(BatchesOfTrace, e)
             /\ pc = "done" => BatchesOfTrace = e
    /\ call.fn = "typewrite" =>
         LET m == call.keys[1]
             e == PressBatches(CharsOf(IF call.auto_shift THEN m ELSE lower(m)),
                               call.auto_shift)
         IN  /\ IsPrefix(BatchesOfTrace, e)
             /\ ( pc = "done" /\ ~FAILSAFE ) => BatchesOfTrace = e
             /\ ~call.auto_shift =>
                  \A i \in 1..Len(BatchesOfTrace) :
                    \A j \in 1..Len(BatchesOfTrace[i]) :
                      BatchesOfTrace[i][j].wScan # 42
             /\ ( call.auto_shift /\ pc = "done" /\ ~FAILSAFE ) =>
                  \A c \in { m[i] : i \in 1..Len(m) } :
                    IsUpper(c) =>
                      LET code == KEYBOARD_MAPPING[<< LowerChar(c) >>][1]
                          n == Cardinality({ i \in 1..Len(m) : m[i] = c })
                      IN  /\ Len(SelectSeq(BatchesOfTrace,
                                   LAMBDA b : WScans(b) = << 42, code >>
                                              /\ ~IsKeyUp(b[1]) /\ ~IsKeyUp(b[2])))
                             = n
                          /\ Len(SelectSeq(BatchesOfTrace,
                                   LAMBDA b : WScans(b) = << 42, code >>
                                              /\ IsKeyUp(b[1]) /\ IsKeyUp(b[2])))
                             = n

C20_Witness ==
    /\ pc = "done" /\ outcome = "returned" /\ ~FAILSAFE
    /\ call.fn = "typewrite" /\ call.keys = << << "A", "a" >> >>
    /\ call.auto_shift
    /\ [ i \in 1..Len(BatchesOfTrace) |-> WScans(BatchesOfTrace[i]) ]
         = << << 42, 30 >>, << 42, 30 >>, << 30 >>, << 30 >> >>

(* ----- C19 ----------------------------------------------------------------- *)
\* the combined press-and-release event of a button: down + up flag, and
\* the number of the side button in mouseData
ClickEventOf(button, buttons_swapped) ==
    CASE button \in { "left" } \cup (IF buttons_swapped THEN { "secondary" }
                                     ELSE { "primary" }) ->
           [ dx |-> 0, dy |-> 0, mouseData |-> 0, dwFlags |-> 2 + 4 ]
      [] button \in { "right" } \cup (IF buttons_swapped THEN { "primary" }
                                      ELSE { "secondary" }) ->
           [ dx |-> 0, dy |-> 0, mouseData |-> 0, dwFlags |-> 8 + 16 ]
      [] button = "middle" ->
           [ dx |-> 0, dy |-> 0, mouseData |-> 0, dwFlags |-> 32 + 64 ]
      [] button \in { "mouse4", "x1" } ->
           [ dx |-> 0, dy |-> 0, mouseData |-> 1, dwFlags |-> 128 + 256 ]
      [] button \in { "mouse5", "x2" } ->
           [ dx |-> 0, dy |-> 0, mouseData |-> 2, dwFlags |-> 128 + 256 ]

ValidButtons ==
    { "left", "middle", "right", "primary", "secondary",
      "mouse4", "x1", "mouse5", "x2" }

IsIntervalSleep(e) == e.op = "sleep" /\ e.what = "interval"
IsClickStep(e) == IsSend(e) \/ IsIntervalSleep(e)

\* C19: a click call with a valid button injects, one event per SendInput
\* call, exactly clicks (none for clicks <= 0) combined press-and-release
\* events of its button by the time it returns, and sleeps `interval` only
\* between two of them: max(clicks - 1, 0) times, never before the first;
\* doubleClick and tripleClick inject 2 and 3.
C19_ClickCount ==
    ( /\ mv.fn \in { "click", "doubleClick", "tripleClick" }
      /\ mv.click.button \in ValidButtons )
    => LET n == CASE mv.fn = "click" -> Max(mv.click.clicks, 0)
                  [] mv.fn = "doubleClick" -> 2
                  [] mv.fn = "tripleClick" -> 3
           steps == SelectSeq(trace, IsClickStep)
           sends == SendsOf(trace)
       IN  /\ Len(sends) <= n
           /\ \A i \in 1..Len(sends) :
                sends[i].batch
                  = << ClickEventOf(mv.click.button, mv.click.buttons_swapped) >>
           /\ \A i \in 1..Len(steps) : IsSend(steps[i]) <=> i % 2 = 1
           /\ ( pc = "done" /\ outcome = "returned" )
                => /\ Len(sends) = n
                   /\ Len(SelectSeq(trace, IsIntervalSleep)) = Max(n - 1, 0)
                   /\ ret = "None"

C19_Witness ==
    /\ pc = "done" /\ outcome = "returned"
    /\ mv.fn = "tripleClick" /\ mv.click.button = "primary"
    /\ mv.click.buttons_swapped
    /\ Len(SendsOf(trace)) = 3
    /\ Len(SelectSeq(trace, IsIntervalSleep)) = 2
    /\ SendsOf(trace)[3].batch[1].dwFlags = 24

(* ----- C12 ----------------------------------------------------------------- *)
\* every SendInput call of the call so far has injected its event
AllInjected == \A i \in 1..Len(trace) : IsSend(trace[i]) => trace[i].n = 1

\* where the claim says a moveTo call ends
TargetOf(m) ==
    IF m.args.relative
    THEN << m.start[1] + (IF m.args.x = None THEN 0 ELSE m.args.x[1]),
            m.start[2] + (IF m.args.y = None THEN 0 ELSE m.args.y[1]) >>
    ELSE << IF m.args.x = None THEN m.start[1] ELSE m.args.x[1],
            IF m.args.y = None THEN m.start[2] ELSE m.args.y[1] >>

\* C12: when a moveTo call whose target is on the screen, and whose events
\* were all injected, returns, the cursor is at the target: (x, y), with the
\* start coordinate for an axis given as None, or start + (x, y) if
\* relative; whatever the duration; and the last event injected is an
\* absolute move that stands for the target pixel.
C12_MoveToTarget ==
    ( /\ pc = "done" /\ outcome = "returned" /\ mv.fn = "moveTo"
      /\ TargetOf(mv) \in Screen /\ AllInjected )
    => /\ cursor = TargetOf(mv)
       /\ SendsOf(trace) # << >> =>
            LET last == SendsOf(trace)[Len(SendsOf(trace))]
                ev == last.batch[1]
            IN  /\ last.to = TargetOf(mv)
                /\ ev.dwFlags = 1 + 32768
                /\ (ev.dx * ScreenWidth) \div 65536 = TargetOf(mv)[1]
                /\ (ev.dy * ScreenHeight) \div 65536 = TargetOf(mv)[2]

C12_Witness ==
    /\ pc = "done" /\ outcome = "returned" /\ mv.fn = "moveTo"
    /\ mv.args.x = Some(2) /\ mv.args.y = None /\ ~mv.args.relative
    /\ mv.args.duration = 2 /\ mv.start = << 0, 1 >>
    /\ AllInjected /\ Len(SendsOf(trace)) = 2
    /\ cursor = << 2, 1 >>

(* ----- C14 ----------------------------------------------------------------- *)
\* C14: when move(-dx, -dy), called right after a move(dx, dy) that took the
\* cursor from a point p to p + (dx, dy), returns with all its events
\* injected, the cursor is at p again (neither point being a fail-safe
\* point; an offset given as None counts as 0).
C14_ReturnAccuracy ==
    ( /\ pc = "done" /\ outcome = "returned"
      /\ mv.fn = "moveRel" /\ ~mv.args.relative
      /\ prev.fn = "moveRel"
      /\ mv.start = << prev.start[1] + prev.dx, prev.start[2] + prev.dy >>
      /\ prev.start \notin FAILSAFE_POINTS /\ mv.start \notin FAILSAFE_POINTS
      /\ AllInjected )
    => cursor = prev.start

C14_Witness ==
    /\ pc = "done" /\ outcome = "returned"
    /\ mv.fn = "moveRel" /\ ~mv.args.relative
    /\ prev.fn = "moveRel" /\ prev.dx = 2 /\ prev.dy = -1
    /\ prev.start = << 0, 2 >> /\ mv.start = << 2, 1 >>
    /\ mv.args.x = Some(-2) /\ mv.args.y = Some(1)
    /\ AllInjected /\ cursor = << 0, 2 >>

(* ----- C13 ----------------------------------------------------------------- *)
\* the relative move events of the call
MoveEvents == SendsOf(trace)

\* C13: when moveRel(xOffset, yOffset, duration, relative=True) returns, with
\* a duration of at least two MINIMUM_SLEEP_ACTUAL intervals and offsets whose
\* larger magnitude is at least 2 pixels, positive or negative, more than one
\* relative move event has been injected.
C13_Microsteps ==
    ( /\ pc = "done" /\ outcome = "returned"
      /\ mv.fn = "moveRel" /\ mv.args.relative
      /\ mv.args.duration >= 2
      /\ Max(Abs(OffsetOf(mv.args.x)), Abs(OffsetOf(mv.args.y))) >= 2 )
    => Len(MoveEvents) > 1

(* ----- C15 ----------------------------------------------------------------- *)
\* C15: every relative move event of moveRel(relative=True,
\* disable_mouse_acceleration=True) is injected while the system's Enhanced
\* Pointer Precision value is 0 and the system's mouse speed is 10, whatever
\* the settings were before the call.
C15_NeutralSettings ==
    ( mv.fn = "moveRel" /\ mv.args.relative
      /\ mv.args.disable_mouse_acceleration )
    => \A i \in 1..Len(trace) :
          IsSend(trace[i]) => trace[i].sp.epp = 0 /\ trace[i].sp.speed = 10

(* ----- C16 ----------------------------------------------------------------- *)
\* C16: when moveRel(relative=True, disable_mouse_acceleration=True) has
\* ended, by returning or by an exception raised while injecting, Enhanced
\* Pointer Precision, the two thresholds and the mouse speed have the values
\* they had before the call.
C16_SettingsRestored ==
    ( /\ pc = "done" /\ mv.fn = "moveRel" /\ mv.args.relative
      /\ mv.args.disable_mouse_acceleration )
    => /\ SystemParameters = mv.before
       /\ MouseSpeedSettings.context_manager_count = 0

C16_Witness ==
    /\ pc = "done" /\ mv.fn = "moveRel" /\ mv.args.relative
    /\ mv.args.disable_mouse_acceleration
    /\ outcome = "KeyboardInterrupt"
    /\ mv.before = [ th1 |-> 0, th2 |-> 0, epp |-> 1, speed |-> 6 ]
    /\ Len(MoveEvents) = 2
    /\ \A i \in 1..Len(trace) : IsSend(trace[i]) => trace[i].sp.epp = 0
    /\ SystemParameters.epp = 1

(* ----- C18 ----------------------------------------------------------------- *)
IsStoreStep ==
    pc = "idle" /\ pc' = "done" /\ mv'.fn = "store_mouse_acceleration_settings"

IsRestoreStep ==
    pc = "idle" /\ pc' = "done"
    /\ mv'.fn = "restore_mouse_acceleration_settings"

ManualStore(cls) == << cls.manual_store_epp, cls.manual_store_speed >>

\* C18: a store records the current Enhanced Pointer Precision and mouse
\* speed; no movement and no change of the system settings touches the
\* record; a restore writes the recorded pair to the system, leaves the two
\* thresholds as they are, changes nothing when applied a second time, and
\* raises ValueError exactly when nothing is recorded, which never is the
\* case after the store made at import.
C18_StoreRestore ==
    [][ /\ IsStoreStep =>
             ManualStore(MouseSpeedSettings')
               = << Some(SystemParameters.epp), Some(SystemParameters.speed) >>
        /\ ~IsStoreStep =>
             ManualStore(MouseSpeedSettings') = ManualStore(MouseSpeedSettings)
        /\ None \notin { MouseSpeedSettings'.manual_store_epp,
                         MouseSpeedSettings'.manual_store_speed }
        /\ IsRestoreStep =>
             /\ outcome' = "ValueError"
                  <=> None \in { MouseSpeedSettings.manual_store_epp,
                                 MouseSpeedSettings.manual_store_speed }
             /\ outcome' = "returned"
             /\ << Some(SystemParameters'.epp), Some(SystemParameters'.speed) >>
                  = ManualStore(MouseSpeedSettings)
             /\ SystemParameters'.th1 = SystemParameters.th1
             /\ SystemParameters'.th2 = SystemParameters.th2
             /\ restore_mouse_acceleration_settings(
                    SystemParameters', MouseSpeedSettings').sp
                  = SystemParameters' ]_vars

C18_Witness ==
    /\ pc = "done" /\ mv.fn = "restore_mouse_acceleration_settings"
    /\ outcome = "returned"
    /\ mv.before = [ th1 |-> 0, th2 |-> 0, epp |-> 0, speed |-> 6 ]
    /\ ManualStore(MouseSpeedSettings) = << Some(1), Some(10) >>
    /\ SystemParameters = [ th1 |-> 0, th2 |-> 0, epp |-> 1, speed |-> 10 ]

(* ----- C17 ----------------------------------------------------------------- *)
\* C17: for threads that each run _without_mouse_acceleration, in every
\* interleaving: once all of them have finished, Enhanced Pointer Precision
\* has the value it had before the first of them started; and while a
\* thread is at its injection, Enhanced Pointer Precision is 0.
C17_ThreadSafe ==
    /\ AllThreadsDone => SystemParameters.epp = mv.before.epp
    /\ (\E i \in 1..Len(threads) : threads[i].pc = "yield")
         => SystemParameters.epp = 0

(* ----- C21 ----------------------------------------------------------------- *)
\* a * b for 0 <= a, b <= 65537 as << high, low >> in base 65536
Wide(a, b) ==
    LET A == a * (b \div 256)
        B == a * (b % 256)
        low == (A % 256) * 256 + B
    IN  << A \div 256 + low \div 65536, low % 65536 >>

WideLeq(x, y) == x[1] < y[1] \/ (x[1] = y[1] /\ x[2] <= y[2])

\* c = ceil(p * 65536 / W): (c - 1) * W < p * 65536 <= c * W
IsCeil(c, p, W) ==
    /\ WideLeq(<< p, 0 >>, Wide(c, W))
    /\ c > 0 => ~WideLeq(<< p, 0 >>, Wide(c - 1, W))

\* ceil(p * 65536 / W), looked for among the 257 values from 256 * floor(256 * p / W) on
Ceil(p, W) ==
    LET from == ((p * 256) \div W) * 256
    IN  CHOOSE c \in from..(from + 256) : IsCeil(c, p, W)

\* the value the claim gives for pixel p of a display of W pixels
NormalisedOracle(p, W) == (Ceil(p, W) + Ceil(p + 1, W)) \div 2

\* C21: _calc_normalized_screen_coord(p, W), for a display of 1 <= W <= 65536
\* pixels and a pixel 0 <= p < W, is floor((ceil(p*65536/W) +
\* ceil((p+1)*65536/W)) / 2), lies in 0..65535, and is not larger than the
\* value of the pixel before the next one: it is non-decreasing in p. The
\* two values of _to_windows_coordinates are those of its two axes.
C21_NormalisedRange ==
    /\ ( pc = "done" /\ call.fn = "_calc_normalized_screen_coord" )
       => LET p == call.keys[1]
              W == call.keys[2]
          IN  /\ ret = NormalisedOracle(p, W)
              /\ ret \in 0..65535
              /\ p + 1 < W => ret <= calc_normalized_screen_coord(p + 1, W)
              /\ p > 0 => calc_normalized_screen_coord(p - 1, W) <= ret
    /\ ( pc = "done" /\ call.fn = "_to_windows_coordinates" )
       => /\ ret[1] = NormalisedOracle(call.keys[1], ScreenWidth)
          /\ ret[2] = NormalisedOracle(call.keys[2], ScreenHeight)
          /\ ret[1] \in 0..65535 /\ ret[2] \in 0..65535

C21_Witness ==
    /\ pc = "done" /\ call.fn = "_calc_normalized_screen_coord"
    /\ call.keys = << 65535, 65536 >>
    /\ ret = 65535

(* ----- C22 ----------------------------------------------------------------- *)
\* the last event of the call was accepted, if there was one
LastInjected ==
    SendsOf(trace) # << >> => SendsOf(trace)[Len(SendsOf(trace))].n = 1

\* C22: _add_one_step(current, target, n) returns target for n <= 1; for
\* n >= 2 it returns an integer within one half of current + (target -
\* current) / n, between current and target inclusive and not farther from
\* target than current is. And a moveTo to a point of the screen, which
\* takes each step from the position the cursor has at that moment, has the
\* cursor on the target when it returns, also when the cursor was moved or
\* an event was rejected in the middle, the last event being accepted.
C22_StepInterpolation ==
    /\ ( pc = "done" /\ call.fn = "_add_one_step" )
       => LET current == call.keys[1]
              target == call.keys[2]
              n == call.keys[3]
          IN  /\ n <= 1 => ret = target
              /\ n >= 2 =>
                    /\ 2 * Abs(n * ret - ((n - 1) * current + target)) <= n
                    /\ ret >= Min(current, target)
                    /\ ret <= Max(current, target)
                    /\ Abs(target - ret) <= Abs(target - current)
    /\ ( /\ pc = "done" /\ outcome = "returned" /\ mv.fn = "moveTo"
         /\ TargetOf(mv) \in Screen /\ LastInjected )
       => cursor = TargetOf(mv)

C22_Witness ==
    /\ pc = "done" /\ outcome = "returned" /\ mv.fn = "moveTo"
    /\ mv.start = << 1, 1 >> /\ TargetOf(mv) = << 2, 2 >>
    /\ Len(trace) >= 3
    /\ trace[1].op = "send" /\ trace[1].n = 1
    /\ trace[2].op = "moved" /\ trace[2].to = << 0, 2 >>
    /\ trace[3].op = "send" /\ trace[3].n = 1 /\ trace[3].to = << 2, 2 >>
    /\ cursor = << 2, 2 >>

====
